---- MODULE Spec2Model ----
(***************************************************************************)
(* A model of baton: the bidirectional relay (src/src/relay.rs), and the    *)
(* connect loops of the named-pipe client (src/src/win/pipe.rs) and of the *)
(* Assuan connector (src/src/assuan.rs).                                   *)
(*                                                                         *)
(* run_relay spawns Pump A (stdin_to_pipe) on its own thread and runs      *)
(* Pump B (pipe_to_stdout) on the calling thread.  Each pump is modelled   *)
(* one I/O call or one atomic flag access per step, so that every          *)
(* interleaving of the two threads is explored.  The peer, stdin and       *)
(* stdout are the environment: a read hands over any chunk of bytes, an    *)
(* end of stream or an error; a write accepts any non-empty part of the    *)
(* slice (a short write), or fails.                                        *)
(***************************************************************************)
EXTENDS Integers, Sequences, FiniteSets, TLC

\* ------------------------------------------------------------- bounds

\* Length of each pump's buffer; stands for BUFFER_SIZE (32768) of relay.rs.
BufLen == 2
\* Most bytes stdin hands over in one run.
MaxIn == 2
\* Most bytes the peer hands over in one run.
MaxPeer == 2

\* The bytes a stream hands over, from its position `from` on: the i-th byte of
\* a stream is i, so that every byte of a stream is told from every other and
\* from the zeros of a fresh buffer.  The pumps never look at a byte's value.
Chunk(from, n) == [i \in 1..n |-> from + i]

\* ------------------------------------------------------------- errors

ERROR_BROKEN_PIPE == 109
ERROR_PIPE_NOT_CONNECTED == 233

\* raw_os_error() is Some(code), written <<code>>, or None, written << >>.
Some(x) == <<x>>
None == << >>

\* io::Error values the environment may return: a kind and a raw OS code.
IoErrors ==
    { [kind |-> "BrokenPipe", os |-> None],
      [kind |-> "Uncategorized", os |-> Some(ERROR_BROKEN_PIPE)],
      [kind |-> "Uncategorized", os |-> Some(ERROR_PIPE_NOT_CONNECTED)],
      [kind |-> "NotFound", os |-> None],
      [kind |-> "Interrupted", os |-> None] }

\* The error write_all makes up when write returns Ok(0).
WriteZero == [kind |-> "WriteZero", os |-> None]

\* A variant of is_broken_pipe: ERROR_PIPE_NOT_CONNECTED is not looked for.
is_broken_pipe_Without233(e) ==
    \/ e.kind = "BrokenPipe"
    \/ e.os = Some(ERROR_BROKEN_PIPE)

is_broken_pipe(e) ==
    \/ e.kind = "BrokenPipe"
    \/ e.os = Some(ERROR_BROKEN_PIPE)
    \/ e.os = Some(ERROR_PIPE_NOT_CONNECTED)

\* io::Result<()>
Ok == [ok |-> TRUE, err |-> None]
Err(e) == [ok |-> FALSE, err |-> Some(e)]
\* No value yet: the function has not returned.
Pending == [ok |-> FALSE, err |-> None]

\* ------------------------------------------------------------- state

VARIABLES
    cfg,            \* Config: send_zero, exit_on_stdin_eof, exit_on_pipe_eof
    stdin_done,     \* RelayState.stdin_done
    pipe_done,      \* RelayState.pipe_done
    pcR,            \* run_relay's position
    pcA,            \* stdin_to_pipe's position
    pcB,            \* pipe_to_stdout's position
    bufA, nA, offA, \* Pump A: buffer, n of the last read, bytes of the slice written
    bufB, nB, offB, \* Pump B: the same
    resA, resB,     \* what each pump returned
    result,         \* what run_relay returned
    joined,         \* stdin_thread.join() has returned
    exit_code,      \* Some(code) once std::process::exit ran
    exited_by,      \* the pump that called it
    stdin_read,     \* history: bytes Pump A has read from stdin
    peer_written,   \* history: bytes Pump A has written to the peer
    peer_read,      \* history: bytes Pump B has read from the peer
    stdout_written, \* history: bytes Pump B has written to stdout
    flushed,        \* history: bytes of stdout_written covered by a flush
    zero_writes,    \* history: zero-length write calls made on the peer
    write_after_zero, \* history: a write call on the peer followed a zero-length one
    reads_after_done, \* history: stdin reads that returned after pipe_done was set
    writes_after_done, \* history: peer writes with a call made after pipe_done was set
    counted,        \* history: the write in progress is counted in writes_after_done
    b_ended,        \* history: Pump B's read returned 0 or a broken-pipe-class error
    b_reads_after_end, \* history: peer reads made after that
    a_eof,          \* history: Pump A's stdin read returned 0
    a_broken,       \* history: a data write of Pump A failed with a broken-pipe-class error
    b_broken,       \* history: a write or flush of Pump B failed with such an error
    io_failed       \* history: some I/O call has returned an error or Ok(0) to a write

\* The connect loops: NamedPipe::connect and connect_with_retry, run side by
\* side on one sequence of attempt outcomes.
VARIABLES
    conn_cfg,       \* Config: poll, limited_poll, assuan
    round,          \* attempts whose outcome the environment has decided
    outcome,        \* the outcome of attempt `round`: None, or Some(OS error code)
    p_pc,           \* NamedPipe::connect's position
    p_attempts,     \* its local `attempts`
    p_res,          \* what it returned
    p_opens,        \* history: CreateFileW calls made
    p_sleeps,       \* history: thread::sleep calls made
    p_slept_ms,     \* history: milliseconds slept
    t_pc,           \* connect_with_retry's position
    t_attempts,     \* its local `attempts`
    t_res,          \* what it returned
    t_opens,        \* history: TcpStream::connect calls made
    t_sleeps,       \* history: thread::sleep calls made
    t_slept_ms      \* history: milliseconds slept

pVars == << p_pc, p_attempts, p_res, p_opens, p_sleeps, p_slept_ms >>
tVars == << t_pc, t_attempts, t_res, t_opens, t_sleeps, t_slept_ms >>
connVars == << conn_cfg, round, outcome, pVars, tVars >>

\* main and real_main.
VARIABLES
    pcM,            \* real_main's position
    main_res,       \* what real_main returned
    stderr          \* history: the diagnostics main printed

mainVars == << pcM, main_res, stderr >>

\* connect_assuan.
VARIABLES
    rfile,          \* the rendezvous file that config.pipe_name names
    parse_res,      \* what parse_assuan_file returned
    hs_off,         \* write_all(&nonce): bytes of the nonce written so far
    handshake       \* history: the bytes written to the stream before run_relay

assuanVars == << rfile, parse_res, hs_off, handshake >>

\* Two functions looked at on their own: normalize_pipe_path, is_broken_pipe.
VARIABLES
    pipe_name,      \* config.pipe_name
    pipe_path,      \* Some(normalize_pipe_path(&config.pipe_name)), once computed
    bp_err,         \* Some(e), an io::Error handed to is_broken_pipe
    bp_out          \* Some(is_broken_pipe(&e)), once computed

unitVars == << pipe_name, pipe_path, bp_err, bp_out >>

\* The EventPool and the overlapped operations of the two pumps on the pipe:
\* "w", Pump A's async_write, and "r", Pump B's async_read.
VARIABLES
    ev_pool,        \* EventPool.inner: the Vec of event handles
    ev_lock,        \* who holds the Mutex: "free", or an operation
    ev_created,     \* history: events created; they are the handles 1..ev_created
    ev_obj,         \* each event object: manual-reset or not, signaled or not
    op_pc,          \* each operation's position
    op_ev,          \* each operation's EventGuard: Some(handle), or None
    op_io,          \* what its ReadFile / WriteFile call returned
    op_res,         \* what the operation returns
    op_hist         \* history of the operation under way: gets, puts, calls, waits

poolVars == << ev_pool, ev_lock, ev_created, ev_obj, op_pc, op_ev, op_io,
               op_res, op_hist >>

\* The pipe handle that NamedPipe owns.
VARIABLES
    closes          \* history: CloseHandle calls on the pipe handle

ownVars == << closes >>

vars == << connVars, mainVars, assuanVars, unitVars, poolVars, ownVars, cfg, stdin_done, pipe_done, pcR, pcA, pcB, bufA, nA, offA, bufB, nB, offB,
           resA, resB, result, joined, exit_code, exited_by, stdin_read, peer_written,
           peer_read, stdout_written, flushed, zero_writes, write_after_zero,
           reads_after_done, writes_after_done, counted, b_ended, b_reads_after_end,
           a_eof, a_broken, b_broken, io_failed >>

envVars == << cfg, connVars, mainVars, assuanVars, unitVars, poolVars, ownVars >>
flagVars == << stdin_done, pipe_done >>
aLocals == << bufA, nA, offA >>
bLocals == << bufB, nB, offB >>
aHist == << stdin_read, peer_written, zero_writes, write_after_zero,
            reads_after_done, writes_after_done, counted, a_eof, a_broken >>
bHist == << peer_read, stdout_written, flushed, b_ended, b_reads_after_end, b_broken >>
exitVars == << exit_code, exited_by >>
relayVars == << pcR, result, joined >>

\* ------------------------------------------------------------- helpers

Min(a, b) == IF a < b THEN a ELSE b

\* The history counters count 0, 1, "2 or more".
Count(c) == Min(c + 1, 2)

\* vec![0u8; BUFFER_SIZE]
NewBuffer == [i \in 1..BufLen |-> 0]

\* read(&mut buffer) returning Ok(n): the chunk overwrites buffer[..n], the
\* rest of the buffer keeps what it held.
FillBuffer(buf, chunk) ==
    [i \in 1..BufLen |-> IF i <= Len(chunk) THEN chunk[i] ELSE buf[i]]

IsPrefix(s, t) == Len(s) <= Len(t) /\ SubSeq(t, 1, Len(s)) = s

Running == exit_code = None

\* RelayState::new
RelayState_new == [stdin_done |-> FALSE, pipe_done |-> FALSE]

Configs == [send_zero : BOOLEAN, exit_on_stdin_eof : BOOLEAN, exit_on_pipe_eof : BOOLEAN]

\* ------------------------------------------------------------- connect: data

ERROR_FILE_NOT_FOUND == 2
ERROR_PIPE_BUSY == 231
POLL_INTERVAL_MS == 200
MAX_POLL_ATTEMPTS == 300
assuan_POLL_INTERVAL_MS == 200
assuan_MAX_POLL_ATTEMPTS == 300

\* A u32 is kept at its width as two 16-bit limbs, << high, low >>.
U32(n) == << n \div 65536, n % 65536 >>
U32_MAX == << 65535, 65535 >>
\* attempts += 1
U32Inc(x) ==
    IF x[2] < 65535 THEN << x[1], x[2] + 1 >> ELSE << (x[1] + 1) % 65536, 0 >>
\* a >= b
U32Ge(a, b) == a[1] > b[1] \/ (a[1] = b[1] /\ a[2] >= b[2])
U32Gt(a, b) == a[1] > b[1] \/ (a[1] = b[1] /\ a[2] > b[2])

\* BatonError, and the Ok of a connect; `arg` is the OS error code of
\* PipeConnection and AssuanConnection, the count of PollingLimitReached.
Connected == [tag |-> "Ok", arg |-> 0]
NotReturned == [tag |-> "Pending", arg |-> 0]
PipeConnection(code) == [tag |-> "PipeConnection", arg |-> code]
AssuanConnection(code) == [tag |-> "AssuanConnection", arg |-> code]
PollingLimitReached(n) == [tag |-> "PollingLimitReached", arg |-> n]

\* The connect loops before their first attempt.
ConnStart ==
    /\ round = 0 /\ outcome = None
    /\ p_pc = "open" /\ p_attempts = U32(0) /\ p_res = NotReturned
    /\ p_opens = 0 /\ p_sleeps = 0 /\ p_slept_ms = 0
    /\ t_pc = "open" /\ t_attempts = U32(0) /\ t_res = NotReturned
    /\ t_opens = 0 /\ t_sleeps = 0 /\ t_slept_ms = 0

\* NamedPipe::connect has returned a client from its first attempt; the
\* Assuan connector is not used.
ConnIdle ==
    /\ conn_cfg = [poll |-> FALSE, limited_poll |-> FALSE, assuan |-> FALSE]
    /\ round = 1 /\ outcome = None
    /\ p_pc = "done" /\ p_attempts = U32(0) /\ p_res = Connected
    /\ p_opens = 1 /\ p_sleeps = 0 /\ p_slept_ms = 0
    /\ t_pc = "off" /\ t_attempts = U32(0) /\ t_res = NotReturned
    /\ t_opens = 0 /\ t_sleeps = 0 /\ t_slept_ms = 0

\* real_main is inside run_relay.
MainInRelay == pcM = "relay" /\ main_res = NotReturned /\ stderr = << >>

\* No rendezvous file is named: config.assuan is off.
NoFile == [fault |-> "open", bytes |-> << >>]
AssuanOff ==
    /\ rfile = NoFile /\ parse_res = NotReturned
    /\ hs_off = 0 /\ handshake = << >>

\* The two operations on the pipe, "w" of Pump A and "r" of Pump B.
Ops == {"w", "r"}
NoIo == [result |-> 0, bytes |-> 0, last_error |-> 0, signaled |-> FALSE]
NoHist == [gets |-> 0, got |-> 0, fresh |-> FALSE, puts |-> 0, put |-> 0, calls |-> 0,
           errs |-> 0, waits |-> 0, wait |-> "", gors |-> 0, gor |-> << >>]

\* EventPool::new, and no operation under way.
PoolNew ==
    /\ ev_pool = << >> /\ ev_lock = "free"
    /\ ev_created = 0 /\ ev_obj = << >>
    /\ op_pc = [o \in Ops |-> "idle"]
    /\ op_ev = [o \in Ops |-> None]
    /\ op_io = [o \in Ops |-> NoIo]
    /\ op_res = [o \in Ops |-> NotReturned]
    /\ op_hist = [o \in Ops |-> NoHist]

\* The pipe handle has not been closed.
NotClosed == closes = 0

\* Neither function is looked at on its own.
UnitOff ==
    /\ pipe_name = << >> /\ pipe_path = None
    /\ bp_err = None /\ bp_out = None

\* ------------------------------------------------------------- relay: start

\* The relay before thread::spawn.
RelayStart ==
    /\ stdin_done = RelayState_new.stdin_done
    /\ pipe_done = RelayState_new.pipe_done
    /\ pcR = "spawn"
    /\ pcA = "unborn"
    /\ pcB = "unborn"
    /\ bufA = NewBuffer /\ nA = 0 /\ offA = 0
    /\ bufB = NewBuffer /\ nB = 0 /\ offB = 0
    /\ resA = Pending /\ resB = Pending /\ result = Pending
    /\ joined = FALSE
    /\ exit_code = None /\ exited_by = "none"
    /\ stdin_read = << >> /\ peer_written = << >>
    /\ peer_read = << >> /\ stdout_written = << >>
    /\ flushed = 0
    /\ zero_writes = 0 /\ write_after_zero = FALSE
    /\ reads_after_done = 0 /\ writes_after_done = 0 /\ counted = FALSE
    /\ b_ended = FALSE /\ b_reads_after_end = 0
    /\ a_eof = FALSE /\ a_broken = FALSE /\ b_broken = FALSE
    /\ io_failed = FALSE

Init ==
    /\ cfg \in Configs
    /\ RelayStart
    /\ PoolNew
    /\ NotClosed
    /\ ConnIdle
    /\ MainInRelay
    /\ AssuanOff
    /\ UnitOff

\* ------------------------------------------------------------- run_relay

\* thread::spawn(stdin_to_pipe), then pipe_to_stdout on the calling thread.
R_Spawn ==
    /\ Running /\ pcR = "spawn"
    /\ pcM = "relay"
    /\ pcR' = "pump_b"
    /\ pcA' = "top"
    /\ pcB' = "read"
    /\ UNCHANGED << envVars, flagVars, aLocals, bLocals, resA, resB, result, joined,
                    exitVars, aHist, bHist, io_failed >>

\* ------------------------------------------------------------- stdin_to_pipe

\* A variant of A_Top: pipe_done is not tested.
A_Top_NoTest ==
    /\ Running /\ pcA = "top"
    /\ pcA' = "read"
    /\ UNCHANGED << envVars, flagVars, relayVars, pcB, aLocals, bLocals, resA, resB,
                    exitVars, aHist, bHist, io_failed >>

\* Top of the loop: if state.pipe_done.load() { break }, and Ok(()) after the loop.
A_Top ==
    /\ Running /\ pcA = "top"
    /\ IF pipe_done
       THEN pcA' = "returned" /\ resA' = Ok
       ELSE pcA' = "read" /\ UNCHANGED resA
    /\ UNCHANGED << envVars, flagVars, relayVars, pcB, aLocals, bLocals, resB,
                    exitVars, aHist, bHist, io_failed >>

\* stdin.read(&mut buffer): Ok(0), Ok(n) or Err(e).
A_Read ==
    /\ Running /\ pcA = "read"
    /\ reads_after_done' = IF pipe_done THEN Count(reads_after_done) ELSE reads_after_done
    /\ \/ /\ pcA' = "eof"
          /\ a_eof' = TRUE
          /\ UNCHANGED << aLocals, stdin_read, counted, io_failed >>
       \/ \E n \in 1..Min(BufLen, MaxIn - Len(stdin_read)) :
          LET chunk == Chunk(Len(stdin_read), n) IN
             /\ bufA' = FillBuffer(bufA, chunk)
             /\ nA' = n
             /\ offA' = 0
             /\ stdin_read' = stdin_read \o chunk
             /\ counted' = FALSE
             /\ pcA' = "write"
             /\ UNCHANGED << a_eof, io_failed >>
       \/ \E e \in IoErrors :
             /\ io_failed' = TRUE
             /\ pcA' = "read_err"
             /\ UNCHANGED << aLocals, stdin_read, counted, a_eof >>
    /\ UNCHANGED << envVars, flagVars, relayVars, pcB, bLocals, resA, resB, exitVars,
                    peer_written, zero_writes, write_after_zero, writes_after_done,
                    a_broken, bHist >>

\* A variant of A_AfterEofStore: the zero-length write is sent whatever send_zero.
A_AfterEofStore_AlwaysZero == "zero"

\* Where Pump A goes once stdin_done is stored: if send_zero { pipe.write(&[]) }.
A_AfterEofStore == IF cfg.send_zero THEN "zero" ELSE "exit_check"

\* Ok(0): state.stdin_done.store(true).
A_Eof ==
    /\ Running /\ pcA = "eof"
    /\ stdin_done' = TRUE
    /\ pcA' = A_AfterEofStore
    /\ UNCHANGED << envVars, pipe_done, relayVars, pcB, aLocals, bLocals, resA, resB,
                    exitVars, aHist, bHist, io_failed >>

\* pipe.write(&[]): one call, whose error is logged and dropped.
A_Zero ==
    /\ Running /\ pcA = "zero"
    /\ zero_writes' = Count(zero_writes)
    /\ write_after_zero' = (write_after_zero \/ zero_writes > 0)
    /\ writes_after_done' = IF pipe_done THEN Count(writes_after_done) ELSE writes_after_done
    /\ \/ UNCHANGED io_failed
       \/ \E e \in IoErrors : io_failed' = TRUE
    /\ pcA' = "exit_check"
    /\ UNCHANGED << envVars, flagVars, relayVars, pcB, aLocals, bLocals, resA, resB,
                    exitVars, stdin_read, peer_written, reads_after_done, counted,
                    a_eof, a_broken, bHist >>

\* if exit_immediately { std::process::exit(0) }; break; Ok(()).
A_ExitCheck ==
    /\ Running /\ pcA = "exit_check"
    /\ IF cfg.exit_on_stdin_eof
       THEN /\ exit_code' = Some(0)
            /\ exited_by' = "A"
            /\ UNCHANGED << pcA, resA >>
       ELSE /\ pcA' = "returned"
            /\ resA' = Ok
            /\ UNCHANGED exitVars
    /\ UNCHANGED << envVars, flagVars, relayVars, pcB, aLocals, bLocals, resB,
                    aHist, bHist, io_failed >>

\* A variant of A_ReadErr: the error is handled as end of file is, with the
\* zero-length write and the exit that may follow it.
A_ReadErr_AsEof ==
    /\ Running /\ pcA = "read_err"
    /\ stdin_done' = TRUE
    /\ pcA' = A_AfterEofStore
    /\ UNCHANGED << envVars, pipe_done, relayVars, pcB, aLocals, bLocals, resA, resB,
                    exitVars, aHist, bHist, io_failed >>

\* Err(e) from stdin: state.stdin_done.store(true); break; Ok(()).
A_ReadErr ==
    /\ Running /\ pcA = "read_err"
    /\ stdin_done' = TRUE
    /\ pcA' = "returned"
    /\ resA' = Ok
    /\ UNCHANGED << envVars, pipe_done, relayVars, pcB, aLocals, bLocals, resB,
                    exitVars, aHist, bHist, io_failed >>

\* A variant of A_Slice: the whole buffer, &buffer, whatever the read returned.
A_Slice_WholeBuffer(buf, n) == buf

\* The slice Pump A hands to write_all: &buffer[..n].
A_Slice(buf, n) == SubSeq(buf, 1, n)

\* A variant of A_BrokenStore: the flag is cleared.
A_BrokenStore_Clears == FALSE

\* What Pump A stores in pipe_done when its write fails with a broken pipe.
A_BrokenStore == TRUE

\* pipe.write_all(&buffer[..n]), one write call per step: Ok(k) advances the slice,
\* Ok(0) is the error WriteZero, Interrupted is retried, any other error ends
\* write_all; a broken-pipe-class error sets pipe_done and breaks, another is
\* returned.
A_Write ==
    /\ Running /\ pcA = "write"
    /\ counted' = (counted \/ pipe_done)
    /\ writes_after_done' =
          IF pipe_done /\ ~counted THEN Count(writes_after_done) ELSE writes_after_done
    /\ write_after_zero' = (write_after_zero \/ zero_writes > 0)
    /\ LET slice == A_Slice(bufA, nA)
           rest == SubSeq(slice, offA + 1, Len(slice))
       IN \/ \E k \in 1..Len(rest) :
                /\ peer_written' = peer_written \o SubSeq(rest, 1, k)
                /\ offA' = offA + k
                /\ pcA' = IF k = Len(rest) THEN "top" ELSE "write"
                /\ UNCHANGED << pipe_done, resA, a_broken, io_failed >>
          \/ /\ io_failed' = TRUE
             /\ pcA' = "returned"
             /\ resA' = Err(WriteZero)
             /\ UNCHANGED << pipe_done, offA, peer_written, a_broken >>
          \/ \E e \in IoErrors :
                /\ io_failed' = TRUE
                /\ UNCHANGED << offA, peer_written >>
                /\ IF e.kind = "Interrupted"
                   THEN UNCHANGED << pcA, pipe_done, resA, a_broken >>
                   ELSE IF is_broken_pipe(e)
                   THEN /\ pipe_done' = A_BrokenStore
                        /\ a_broken' = TRUE
                        /\ pcA' = "returned"
                        /\ resA' = Ok
                   ELSE /\ pcA' = "returned"
                        /\ resA' = Err(e)
                        /\ UNCHANGED << pipe_done, a_broken >>
    /\ UNCHANGED << envVars, stdin_done, relayVars, pcB, bufA, nA, bLocals, resB,
                    exitVars, stdin_read, zero_writes, reads_after_done, a_eof, bHist >>

PumpA == A_Top \/ A_Read \/ A_Eof \/ A_Zero \/ A_ExitCheck \/ A_ReadErr \/ A_Write

\* ------------------------------------------------------------- pipe_to_stdout

\* pipe.read(&mut buffer): Ok(0), Ok(n) or Err(e); an error that is not of the
\* broken-pipe class is returned.
B_Read ==
    /\ Running /\ pcB = "read"
    /\ b_reads_after_end' = IF b_ended THEN Count(b_reads_after_end) ELSE b_reads_after_end
    /\ \/ /\ pcB' = "store_done"
          /\ b_ended' = TRUE
          /\ UNCHANGED << bLocals, peer_read, resB, io_failed >>
       \/ \E n \in 1..Min(BufLen, MaxPeer - Len(peer_read)) :
          LET chunk == Chunk(Len(peer_read), n) IN
             /\ bufB' = FillBuffer(bufB, chunk)
             /\ nB' = n
             /\ offB' = 0
             /\ peer_read' = peer_read \o chunk
             /\ pcB' = "write"
             /\ UNCHANGED << b_ended, resB, io_failed >>
       \/ \E e \in IoErrors :
             /\ io_failed' = TRUE
             /\ UNCHANGED << bLocals, peer_read >>
             /\ IF is_broken_pipe(e)
                THEN /\ pcB' = "store_done"
                     /\ b_ended' = TRUE
                     /\ UNCHANGED resB
                ELSE /\ pcB' = "returned"
                     /\ resB' = Err(e)
                     /\ UNCHANGED b_ended
    /\ UNCHANGED << envVars, flagVars, relayVars, pcA, aLocals, resA, exitVars, aHist,
                    stdout_written, flushed, b_broken >>

\* A variant of B_StoreDone: the store is left out.
B_StoreDone_NoStore ==
    /\ Running /\ pcB = "store_done"
    /\ pcB' = "exit_check"
    /\ UNCHANGED << envVars, flagVars, relayVars, pcA, aLocals, bLocals, resA, resB,
                    exitVars, aHist, bHist, io_failed >>

\* state.pipe_done.store(true), in the Ok(0) arm and in the broken-pipe arm.
B_StoreDone ==
    /\ Running /\ pcB = "store_done"
    /\ pipe_done' = TRUE
    /\ pcB' = "exit_check"
    /\ UNCHANGED << envVars, stdin_done, relayVars, pcA, aLocals, bLocals, resA, resB,
                    exitVars, aHist, bHist, io_failed >>

\* A variant of B_ExitCheck: no break, the loop goes on to the next read.
B_ExitCheck_NoBreak ==
    /\ Running /\ pcB = "exit_check"
    /\ IF cfg.exit_on_pipe_eof
       THEN /\ exit_code' = Some(0)
            /\ exited_by' = "B"
            /\ UNCHANGED << pcB, resB >>
       ELSE /\ pcB' = "read"
            /\ UNCHANGED << resB, exitVars >>
    /\ UNCHANGED << envVars, flagVars, relayVars, pcA, aLocals, bLocals, resA,
                    aHist, bHist, io_failed >>

\* if exit_immediately { std::process::exit(0) }; break; Ok(()).
B_ExitCheck ==
    /\ Running /\ pcB = "exit_check"
    /\ IF cfg.exit_on_pipe_eof
       THEN /\ exit_code' = Some(0)
            /\ exited_by' = "B"
            /\ UNCHANGED << pcB, resB >>
       ELSE /\ pcB' = "returned"
            /\ resB' = Ok
            /\ UNCHANGED exitVars
    /\ UNCHANGED << envVars, flagVars, relayVars, pcA, aLocals, bLocals, resA,
                    aHist, bHist, io_failed >>

\* A variant of B_AfterWrite: no flush, the next read follows at once.
B_AfterWrite_NoFlush == "read"

\* A variant of B_AfterWrite: Pump B looks at stdin_done and stops when it is
\* set.
B_AfterWrite_StopsOnStdinDone == IF stdin_done THEN "returned" ELSE "flush"

\* Where Pump B goes after write_all: stdout.flush()?.
B_AfterWrite == "flush"

\* The slice Pump B hands to write_all: &buffer[..n].
B_Slice(buf, n) == SubSeq(buf, 1, n)

\* stdout.write_all(&buffer[..n])?, one write call per step; any error that ends
\* write_all is returned by the `?`.
B_Write ==
    /\ Running /\ pcB = "write"
    /\ LET slice == B_Slice(bufB, nB)
           rest == SubSeq(slice, offB + 1, Len(slice))
       IN \/ \E k \in 1..Len(rest) :
                /\ stdout_written' = stdout_written \o SubSeq(rest, 1, k)
                /\ offB' = offB + k
                /\ pcB' = IF k = Len(rest) THEN B_AfterWrite ELSE "write"
                /\ UNCHANGED << resB, b_broken, io_failed >>
          \/ /\ io_failed' = TRUE
             /\ pcB' = "returned"
             /\ resB' = Err(WriteZero)
             /\ UNCHANGED << offB, stdout_written, b_broken >>
          \/ \E e \in IoErrors :
                /\ io_failed' = TRUE
                /\ UNCHANGED << offB, stdout_written >>
                /\ IF e.kind = "Interrupted"
                   THEN UNCHANGED << pcB, resB, b_broken >>
                   ELSE /\ pcB' = "returned"
                        /\ resB' = Err(e)
                        /\ b_broken' = (b_broken \/ is_broken_pipe(e))
    /\ UNCHANGED << envVars, flagVars, relayVars, pcA, aLocals, bufB, nB, resA,
                    exitVars, aHist, peer_read, flushed, b_ended, b_reads_after_end >>

\* stdout.flush()?: the error is returned by the `?`.
B_Flush ==
    /\ Running /\ pcB = "flush"
    /\ \/ /\ flushed' = Len(stdout_written)
          /\ pcB' = "read"
          /\ UNCHANGED << resB, b_broken, io_failed >>
       \/ \E e \in IoErrors :
             /\ io_failed' = TRUE
             /\ pcB' = "returned"
             /\ resB' = Err(e)
             /\ b_broken' = (b_broken \/ is_broken_pipe(e))
             /\ UNCHANGED flushed
    /\ UNCHANGED << envVars, flagVars, relayVars, pcA, aLocals, bLocals, resA,
                    exitVars, aHist, peer_read, stdout_written, b_ended,
                    b_reads_after_end >>

PumpB == B_Read \/ B_StoreDone \/ B_ExitCheck \/ B_Write \/ B_Flush

\* ------------------------------------------------------------- run_relay, the end

\* if !exit_on_pipe_eof { stdin_thread.join() }
R_Joins == ~cfg.exit_on_pipe_eof

\* A variant of R_Result: Pump A's error, when it has one, is handed on.
R_Result_PropagatesA == IF pcA = "returned" /\ ~resA.ok THEN resA ELSE resB

\* The value run_relay returns: result, that of pipe_to_stdout.
R_Result == resB

\* pipe_to_stdout has returned: join Pump A or return at once.
R_AfterB ==
    /\ Running /\ pcR = "pump_b" /\ pcB = "returned"
    /\ IF R_Joins
       THEN pcR' = "join" /\ UNCHANGED result
       ELSE pcR' = "returned" /\ result' = R_Result
    /\ UNCHANGED << envVars, flagVars, pcA, pcB, aLocals, bLocals, resA, resB, joined,
                    exitVars, aHist, bHist, io_failed >>

\* stdin_thread.join() returns once Pump A has; its value is dropped.
R_Join ==
    /\ Running /\ pcR = "join" /\ pcA = "returned"
    /\ joined' = TRUE
    /\ pcR' = "returned"
    /\ result' = R_Result
    /\ UNCHANGED << envVars, flagVars, pcA, pcB, aLocals, bLocals, resA, resB,
                    exitVars, aHist, bHist, io_failed >>

Relay == R_Spawn \/ R_AfterB \/ R_Join

\* ------------------------------------------------------------- specification

Next == PumpA \/ PumpB \/ Relay

Spec == Init /\ [][Next]_vars

\* The OS schedules every thread that can run.
FairSpec == Spec /\ WF_vars(PumpA) /\ WF_vars(PumpB) /\ WF_vars(Relay)

\* ------------------------------------------------------------- properties

\* C1: in each direction the bytes delivered are, at every moment, a prefix of
\* the bytes read, in the same order: stdout against what Pump B read from the
\* peer, the peer against what Pump A read from stdin.
C1_DeliveredIsPrefixOfRead ==
    /\ IsPrefix(stdout_written, peer_read)
    /\ IsPrefix(peer_written, stdin_read)

\* C1's case: both directions have carried two bytes, the second read of Pump A
\* shorter than the buffer (its tail holds an earlier byte or a zero).
C1_Witness ==
    /\ Len(stdin_read) >= 2 /\ peer_written = stdin_read
    /\ Len(peer_read) >= 2 /\ stdout_written = peer_read
    /\ nA < BufLen

\* C2: run_relay returns only after pipe_to_stdout has, and returns exactly its
\* result: an error returned by Pump A is never run_relay's result.
C2_ResultIsPumpB ==
    pcR = "returned" => (pcB = "returned" /\ result = resB)

\* C2's case: Pump A failed with an error, was joined, and run_relay returned Ok.
C2_Witness ==
    /\ pcR = "returned" /\ joined
    /\ pcA = "returned" /\ ~resA.ok
    /\ result = Ok

\* C3: in either pump, an outbound write (Pump A's write to the peer, Pump B's
\* write or flush to stdout) that fails with a broken-pipe-class error makes the
\* pump set pipe_done and end cleanly, and run_relay never returns a
\* broken-pipe-class error.
C3_BrokenPipeEndsCleanly ==
    /\ a_broken => (pipe_done /\ pcA = "returned" /\ resA = Ok)
    /\ b_broken => (pipe_done /\ (pcB = "returned" => resB = Ok))
    /\ (pcR = "returned" /\ ~result.ok) => ~is_broken_pipe(result.err[1])

\* C4: once Pump B's read has returned 0 or a broken-pipe-class error, the next
\* thing Pump B does is set pipe_done; then, with exit_on_pipe_eof, the process
\* exits with code 0 and Pump A is not joined (Pump B never returns), and
\* without it Pump B returns Ok; it never reads from the peer again.
C4_PumpBEndOfStream ==
    /\ (b_ended /\ pcB # "store_done") => pipe_done
    /\ b_ended => pcB \in {"store_done", "exit_check", "returned"}
    /\ (b_ended /\ pcB = "returned") => (~cfg.exit_on_pipe_eof /\ resB = Ok)
    /\ exited_by = "B" =>
          /\ b_ended /\ cfg.exit_on_pipe_eof /\ pipe_done
          /\ exit_code = Some(0) /\ ~joined /\ pcR = "pump_b"
    /\ b_reads_after_end = 0

\* C4's case: the peer's stream ended after data, by a broken-pipe-class error
\* or a read of 0, and Pump B has gone past the store.
C4_Witness ==
    /\ b_ended /\ io_failed /\ Len(peer_read) >= 1
    /\ pcB = "returned" /\ pcA = "read"

\* C5, the states: at stdin's end Pump A has stored stdin_done before anything
\* else; the zero-length write is called once with send_zero and never without
\* it; no write call on the peer follows it; then the process exits with code 0
\* if exit_on_stdin_eof, and otherwise Pump A returns Ok.
C5_StdinEofStates ==
    /\ (a_eof /\ pcA # "eof") => stdin_done
    /\ a_eof => pcA \in {"eof", "zero", "exit_check", "returned"}
    /\ zero_writes <= 1
    /\ zero_writes = 1 => (a_eof /\ cfg.send_zero /\ stdin_done)
    /\ (a_eof /\ pcA \in {"exit_check", "returned"}) =>
          zero_writes = (IF cfg.send_zero THEN 1 ELSE 0)
    /\ ~write_after_zero
    /\ (a_eof /\ pcA = "returned") => (~cfg.exit_on_stdin_eof /\ resA = Ok)
    /\ exited_by = "A" =>
          /\ a_eof /\ cfg.exit_on_stdin_eof /\ stdin_done
          /\ exit_code = Some(0)
          /\ zero_writes = (IF cfg.send_zero THEN 1 ELSE 0)

\* C5, the steps: the zero-length write, failed or not, leaves pipe_done and
\* Pump A's result as they were and hands over to the exit test.
C5_ZeroWriteStep ==
    (pcA = "zero" /\ pcA' # "zero") =>
        (pcA' = "exit_check" /\ pipe_done' = pipe_done /\ resA' = resA
         /\ peer_written' = peer_written)

\* C5: the order of Pump A's steps at the end of stdin.
C5_StdinEofOrder == [](C5_StdinEofStates) /\ [][C5_ZeroWriteStep]_vars

\* C5's case: data was written to the peer, then stdin ended, the zero-length
\* write failed, and Pump A returned Ok with pipe_done still clear.
C5_Witness ==
    /\ a_eof /\ zero_writes = 1 /\ io_failed /\ ~b_ended /\ pcB = "read"
    /\ Len(peer_written) >= 1 /\ ~pipe_done
    /\ pcA = "returned" /\ resA = Ok

\* C6: after pipe_done has become true, at most one more stdin read returns to
\* Pump A and at most one more write on the peer has a call made (the write of
\* the iteration in progress, or the zero-length write), before Pump A stops.
C6_AtMostOneMore ==
    /\ reads_after_done <= 1
    /\ writes_after_done <= 1

\* C6's case: Pump B set pipe_done while Pump A was in an iteration, whose read
\* and write then both took place, and Pump A stopped at the next test.
C6_Witness ==
    /\ b_ended /\ pipe_done
    /\ reads_after_done = 1 /\ writes_after_done = 1
    /\ pcA = "returned" /\ ~a_eof /\ ~a_broken /\ resA = Ok

\* C7: run_relay joins Pump A exactly when exit_on_pipe_eof is false; with
\* exit_on_pipe_eof the process has exited by the time Pump B's loop is over,
\* so run_relay is never past Pump B while Pump A is still running.
C7_JoinUnlessExited ==
    /\ pcR = "returned" => (joined <=> ~cfg.exit_on_pipe_eof)
    /\ (cfg.exit_on_pipe_eof /\ pcB = "returned") => ~Running
    /\ pcR = "returned" => pcA = "returned"

\* The end of C8's runs: both pumps have returned, run_relay has returned Ok and
\* pipe_done is set.
C8_CleanEnd ==
    /\ pcA = "returned" /\ pcB = "returned"
    /\ pcR = "returned" /\ result = Ok /\ pipe_done

\* C8: with exit_on_stdin_eof and exit_on_pipe_eof both false, under fair
\* scheduling of the threads, a run in which no I/O call fails (and, the streams
\* being finite, both reach their end) comes to the clean end.
C8_CleanTermination ==
    (~cfg.exit_on_stdin_eof /\ ~cfg.exit_on_pipe_eof) => <>(io_failed \/ C8_CleanEnd)

\* C8's case: stdin ended first, the peer after it, no call failed, and
\* run_relay has returned Ok.
C8_Witness ==
    /\ ~cfg.exit_on_stdin_eof /\ ~cfg.exit_on_pipe_eof /\ ~io_failed
    /\ C8_CleanEnd /\ a_eof /\ reads_after_done = 0
    /\ Len(stdin_read) >= 1 /\ Len(peer_read) >= 1

\* C9: when the process exits by Pump B's exit_on_pipe_eof path, stdout holds,
\* written and flushed, every byte Pump B read from the peer, and Pump A has not
\* been waited for.
C9_ExitAfterFullDelivery ==
    exited_by = "B" =>
        /\ stdout_written = peer_read
        /\ flushed = Len(stdout_written)
        /\ ~joined
        /\ exit_code = Some(0)

\* C9's case: the exit took place after two bytes, with Pump A still in its
\* stdin read.
C9_Witness ==
    /\ exited_by = "B" /\ Len(peer_read) >= 2
    /\ pcA = "read" /\ ~stdin_done

\* C10: both flags are false when the relay starts, and no step takes either
\* flag from true back to false.
C10_FlagsMonotone ==
    /\ (~stdin_done /\ ~pipe_done)
    /\ [][(stdin_done => stdin_done') /\ (pipe_done => pipe_done')]_vars

\* C10's case: pipe_done has been stored twice, by Pump B at the peer's end and
\* by Pump A on a broken pipe, and Pump A's test has seen it set.
C10_Witness ==
    /\ pipe_done /\ b_ended /\ a_broken
    /\ pcB = "returned" /\ pcA = "returned"

\* ------------------------------------------------------------- connect

\* All of the relay but its exit.
relayAll == << cfg, flagVars, relayVars, pcA, pcB, aLocals, bLocals, resA, resB,
               aHist, bHist, io_failed >>

\* The most attempts the environment decides.
MaxRounds == 302
\* The most attempts it decides for one loop after the other has returned.
MaxApart == 2

\* What one attempt to open can meet: success, or an OS error; 5, access
\* denied, stands for the codes that are neither of the retryable two.
Outcomes == { None, Some(ERROR_FILE_NOT_FOUND), Some(ERROR_PIPE_BUSY), Some(5) }

ConnConfigs == [poll : BOOLEAN, limited_poll : BOOLEAN, assuan : BOOLEAN]

\* A loop waits for the outcome of its next attempt.
AwaitsOutcome(pc, opens) == pc = "open" /\ opens = round

\* CreateFileW / TcpStream::connect: the environment decides how the next
\* attempt ends, once every loop still running has used the last outcome.
Env_Round ==
    /\ round < MaxRounds
    /\ AwaitsOutcome(p_pc, p_opens) \/ AwaitsOutcome(t_pc, t_opens)
    /\ p_pc = "open" => p_opens = round
    /\ t_pc = "open" => t_opens = round
    /\ p_pc # "sleep" /\ t_pc # "sleep"
    /\ p_pc = "done" => round - p_opens < MaxApart
    /\ t_pc = "done" => round - t_opens < MaxApart
    /\ round' = round + 1
    /\ outcome' \in Outcomes
    /\ UNCHANGED << conn_cfg, pVars, tVars, mainVars, assuanVars, unitVars, poolVars, ownVars, relayAll, exitVars >>

\* NamedPipe::connect

is_retryable(err) == err = ERROR_FILE_NOT_FOUND \/ err = ERROR_PIPE_BUSY

max_attempts(config) ==
    IF config.limited_poll THEN U32(MAX_POLL_ATTEMPTS) ELSE U32_MAX

\* A variant of P_FailsAtOnce: the test of poll is left out.
P_FailsAtOnce_RetryableOnly(config, err) == ~is_retryable(err)

\* if !config.poll || !is_retryable
P_FailsAtOnce(config, err) == ~config.poll \/ ~is_retryable(err)

\* A variant of P_LimitReached: one attempt more is allowed.
P_LimitReached_Above(attempts, config) == U32Gt(attempts, max_attempts(config))

\* if attempts >= max_attempts
P_LimitReached(attempts, config) == U32Ge(attempts, max_attempts(config))

\* One turn of the loop up to its return or its sleep.
P_Open ==
    /\ p_pc = "open" /\ p_opens < round
    /\ p_opens' = p_opens + 1
    /\ IF outcome = None
       THEN /\ p_res' = Connected
            /\ p_pc' = "done"
            /\ UNCHANGED p_attempts
       ELSE IF P_FailsAtOnce(conn_cfg, outcome[1])
               THEN /\ p_res' = PipeConnection(outcome[1])
                    /\ p_pc' = "done"
                    /\ UNCHANGED p_attempts
               ELSE /\ p_attempts' = U32Inc(p_attempts)
                    /\ IF P_LimitReached(p_attempts', conn_cfg)
                       THEN /\ p_res' = PollingLimitReached(p_attempts')
                            /\ p_pc' = "done"
                       ELSE /\ p_pc' = "sleep"
                            /\ UNCHANGED p_res
    /\ UNCHANGED << conn_cfg, round, outcome, p_sleeps, p_slept_ms, tVars, mainVars,
                    assuanVars, unitVars, poolVars, ownVars, relayAll, exitVars >>

\* A variant of P_Sleep: the loop goes round without sleeping.
P_Sleep_Skipped ==
    /\ p_pc = "sleep"
    /\ p_pc' = "open"
    /\ UNCHANGED << conn_cfg, round, outcome, p_attempts, p_res, p_opens,
                    p_sleeps, p_slept_ms, tVars, mainVars,
                    assuanVars, unitVars, poolVars, ownVars, relayAll, exitVars >>

\* thread::sleep(Duration::from_millis(POLL_INTERVAL_MS))
P_Sleep ==
    /\ p_pc = "sleep"
    /\ p_sleeps' = p_sleeps + 1
    /\ p_slept_ms' = p_slept_ms + POLL_INTERVAL_MS
    /\ p_pc' = "open"
    /\ UNCHANGED << conn_cfg, round, outcome, p_attempts, p_res, p_opens,
                    tVars, mainVars,
                    assuanVars, unitVars, poolVars, ownVars, relayAll, exitVars >>

PipeConnect == P_Open \/ P_Sleep

\* connect_with_retry

assuan_max_attempts(config) ==
    IF config.limited_poll THEN U32(assuan_MAX_POLL_ATTEMPTS) ELSE U32_MAX

\* A variant of T_FailsAtOnce: a failure is retried whatever poll is.
T_FailsAtOnce_Never(config) == FALSE

\* A variant of T_FailsAtOnce: every failure is returned, whatever poll is.
T_FailsAtOnce_Whatever(config) == TRUE

\* if !config.poll
T_FailsAtOnce(config) == ~config.poll

\* if attempts >= max_attempts
T_LimitReached(attempts, config) == U32Ge(attempts, assuan_max_attempts(config))

\* One turn of the loop up to its return or its sleep.
T_Open ==
    /\ t_pc = "open" /\ t_opens < round
    /\ t_opens' = t_opens + 1
    /\ IF outcome = None
       THEN /\ t_res' = Connected
            /\ t_pc' = "done"
            /\ UNCHANGED t_attempts
       ELSE IF T_FailsAtOnce(conn_cfg)
               THEN /\ t_res' = AssuanConnection(outcome[1])
                    /\ t_pc' = "done"
                    /\ UNCHANGED t_attempts
               ELSE /\ t_attempts' = U32Inc(t_attempts)
                    /\ IF T_LimitReached(t_attempts', conn_cfg)
                       THEN /\ t_res' = PollingLimitReached(t_attempts')
                            /\ t_pc' = "done"
                       ELSE /\ t_pc' = "sleep"
                            /\ UNCHANGED t_res
    /\ UNCHANGED << conn_cfg, round, outcome, t_sleeps, t_slept_ms, pVars, mainVars,
                    assuanVars, unitVars, poolVars, ownVars, relayAll, exitVars >>

\* thread::sleep(Duration::from_millis(POLL_INTERVAL_MS))
T_Sleep ==
    /\ t_pc = "sleep"
    /\ t_sleeps' = t_sleeps + 1
    /\ t_slept_ms' = t_slept_ms + assuan_POLL_INTERVAL_MS
    /\ t_pc' = "open"
    /\ UNCHANGED << conn_cfg, round, outcome, t_attempts, t_res, t_opens,
                    pVars, mainVars,
                    assuanVars, unitVars, poolVars, ownVars, relayAll, exitVars >>

TcpConnect == T_Open \/ T_Sleep

\* ------------------------------------------------------------- main

\* x div 10 and x mod 10 of a u32, by long division on its limbs.
U32DivMod10(x) ==
    LET r == (x[1] % 10) * 65536 + x[2]
    IN  [quot |-> << x[1] \div 10, r \div 10 >>, rem |-> r % 10]

RECURSIVE Decimal(_)
\* {0} of a u32: its decimal digits, as ASCII.
Decimal(x) ==
    LET d == U32DivMod10(x)
    IN  IF d.quot = U32(0) THEN << 48 + d.rem >>
        ELSE Append(Decimal(d.quot), 48 + d.rem)

\* {0} of an io::Error made from a raw OS error.
OsErrorText(code) == << "os error ", code >>

\* BatonError's Display.
Display(e) ==
    CASE e.tag = "PipeConnection" ->
            << "Failed to connect to named pipe: ", OsErrorText(e.arg) >>
      [] e.tag = "PollingLimitReached" ->
            << "Polling limit reached after ", Decimal(e.arg), " attempts" >>
      [] e.tag = "AssuanParse" ->
            << "Failed to parse Assuan socket file: ", e.arg >>
      [] e.tag = "AssuanConnection" ->
            << "Failed to connect to Assuan TCP socket: ", OsErrorText(e.arg) >>
      [] e.tag = "Io" ->
            << "I/O error: ", e.arg >>
      [] e.tag = "io::Error" ->
            << e.arg >>

\* What the connect loop that the configuration selects returned.
ConnectResult == IF conn_cfg.assuan THEN t_res ELSE p_res

\* A variant of M_AfterConnect: real_main goes on whatever connect returned.
M_AfterConnect_GoesOn(r) ==
    /\ pcM' = (IF conn_cfg.assuan THEN "nonce" ELSE "relay")
    /\ UNCHANGED main_res

\* The ? after connect: an error is what real_main returns.
M_AfterConnect(r) ==
    IF r.tag = "Ok"
    THEN /\ pcM' = (IF conn_cfg.assuan THEN "nonce" ELSE "relay")
         /\ UNCHANGED main_res
    ELSE /\ pcM' = "returned"
         /\ main_res' = r

\* connect_with_retry(&addr, config)? and NamedPipe::connect(&config)?
M_Connect ==
    /\ Running /\ pcM = "connect"
    /\ ConnectResult # NotReturned
    /\ M_AfterConnect(ConnectResult)
    /\ UNCHANGED << connVars, stderr, assuanVars, unitVars, poolVars, ownVars, relayAll, exitVars >>

\* main: the diagnostic and exit code 1 on an error, a plain return otherwise.
Main_Exit ==
    /\ Running /\ pcM = "returned"
    /\ pcM' = "exited"
    /\ exited_by' = "main"
    /\ IF main_res.tag = "Ok"
       THEN /\ exit_code' = Some(0)
            /\ UNCHANGED stderr
       ELSE /\ stderr' = Append(stderr, << "baton error: " >> \o Display(main_res))
            /\ exit_code' = Some(1)
    /\ UNCHANGED << connVars, main_res, assuanVars, unitVars, poolVars, ownVars, relayAll >>

\* ------------------------------------------------------------- connect: runs

\* No flag of the relay is given.
NoRelayFlags ==
    [send_zero |-> FALSE, exit_on_stdin_eof |-> FALSE, exit_on_pipe_eof |-> FALSE]

\* The two connect loops are run side by side on one sequence of outcomes;
\* real_main goes on with the loop its configuration selects.
ConnectInit ==
    /\ conn_cfg \in ConnConfigs
    /\ ConnStart
    /\ pcM = "connect" /\ main_res = NotReturned /\ stderr = << >>
    /\ cfg = NoRelayFlags
    /\ RelayStart
    /\ PoolNew
    /\ NotClosed
    /\ AssuanOff
    /\ UnitOff

ConnectNext == Env_Round \/ PipeConnect \/ TcpConnect \/ M_Connect \/ Main_Exit

ConnectSpec == ConnectInit /\ [][ConnectNext]_vars

\* ------------------------------------------------------------- connect: properties

\* C11: NamedPipe::connect goes round again after a failed open only when
\* poll is set and the OS error is 2 or 231; on every other failed open it
\* returns PipeConnection of that error at once, without a sleep, and once it
\* has returned it neither opens nor sleeps again.
C11_RetryGate ==
    [][ /\ (p_opens' = p_opens + 1 /\ outcome # None) =>
             IF conn_cfg.poll /\ outcome[1] \in {2, 231}
             THEN p_pc' = "sleep" \/ p_res'.tag = "PollingLimitReached"
             ELSE /\ p_pc' = "done"
                  /\ p_res' = PipeConnection(outcome[1])
                  /\ p_sleeps' = p_sleeps /\ p_slept_ms' = p_slept_ms
        /\ p_pc = "done" =>
             /\ p_pc' = "done" /\ p_res' = p_res
             /\ p_opens' = p_opens /\ p_sleeps' = p_sleeps
        /\ (p_res'.tag = "PollingLimitReached") => conn_cfg.poll
      ]_vars

\* poll off, limited_poll on, the first open met PIPE_BUSY: PipeConnection(231).
C11_Witness ==
    /\ ~conn_cfg.poll /\ conn_cfg.limited_poll
    /\ p_pc = "done" /\ p_res = PipeConnection(231)
    /\ p_opens = 1 /\ p_sleeps = 0 /\ p_slept_ms = 0

\* C12: with poll and limited_poll, NamedPipe::connect never opens more than
\* 300 times; when the 300th open fails retryably as the 299 before it, it
\* returns PollingLimitReached(300) after 299 sleeps, and main then prints
\* "baton error: Polling limit reached after 300 attempts" and exits with 1.
C12_LimitAfter300 ==
    (conn_cfg.poll /\ conn_cfg.limited_poll) =>
        /\ p_opens <= 300
        /\ (p_opens = 300 /\ p_res.tag \notin {"Ok", "PipeConnection"}) =>
              /\ p_pc = "done"
              /\ p_res = PollingLimitReached(<< 0, 300 >>)
              /\ p_sleeps = 299
        /\ p_res.tag = "PollingLimitReached" => p_opens = 300
        /\ (~conn_cfg.assuan /\ p_res.tag = "PollingLimitReached" /\ pcM = "exited") =>
              /\ exit_code = Some(1)
              /\ stderr = << << "baton error: ", "Polling limit reached after ",
                               << 51, 48, 48 >>, " attempts" >> >>
        /\ (~conn_cfg.assuan /\ p_res.tag = "PollingLimitReached") =>
              pcM \in {"connect", "returned", "exited"}

\* The process has exited with 1 after 300 failed opens.
C12_Witness ==
    /\ conn_cfg.poll /\ conn_cfg.limited_poll /\ ~conn_cfg.assuan
    /\ p_opens = 300 /\ p_res.tag = "PollingLimitReached"
    /\ pcM = "exited" /\ exit_code = Some(1)

\* C13: with poll, an open that succeeds returns a connected client, and a
\* client returned from attempt k has been waited for with exactly k-1 sleeps
\* of 200 ms each; k is at most 300 with limited_poll.
C13_ConnectedAfterSleeps ==
    /\ (conn_cfg.poll /\ p_res.tag = "Ok") =>
          /\ p_pc = "done"
          /\ p_opens >= 1
          /\ p_sleeps = p_opens - 1
          /\ p_slept_ms = 200 * (p_opens - 1)
          /\ conn_cfg.limited_poll => p_opens <= 300
    /\ (conn_cfg.poll /\ p_pc = "done" /\ outcome = None /\ p_opens = round) =>
          p_res.tag = "Ok"

\* The pipe appeared after 3 intervals: connected on attempt 4.
C13_Witness ==
    /\ conn_cfg.poll /\ p_res.tag = "Ok"
    /\ p_opens = 4 /\ p_sleeps = 3 /\ p_slept_ms = 600

\* What the two loops return is the same, but for the error that wraps a
\* failed attempt's OS error.
SameReturn(p, t) ==
    \/ p = t
    \/ p.tag = "PipeConnection" /\ t = AssuanConnection(p.arg)

\* The two loops have gone the same way on the outcomes decided so far.
SameDiscipline ==
    /\ p_pc = "done" => t_opens <= p_opens
    /\ t_pc = "done" => p_opens <= t_opens
    /\ (p_pc = "done" /\ t_pc = "done") =>
          /\ p_opens = t_opens
          /\ p_sleeps = t_sleeps
          /\ SameReturn(p_res, t_res)
    /\ t_slept_ms = 200 * t_sleeps /\ p_slept_ms = 200 * p_sleeps
    /\ t_opens - 1 <= t_sleeps /\ t_sleeps <= t_opens
    /\ t_res.tag = "PollingLimitReached" =>
          /\ t_res.arg = t_attempts /\ t_attempts = << t_opens \div 65536, t_opens % 65536 >>
          /\ conn_cfg.limited_poll /\ t_opens = 300
    /\ ~conn_cfg.poll => t_opens <= 1 /\ t_sleeps = 0
    /\ \A c \in ConnConfigs :
          /\ assuan_max_attempts(c) = max_attempts(c)
          /\ assuan_max_attempts(c) =
                (IF c.limited_poll THEN << 0, 300 >> ELSE << 65535, 65535 >>)

\* C14, as claimed: on the same flags and the same outcomes, the Assuan TCP
\* loop and the named-pipe loop make the same attempts, sleep 200 ms between
\* them, stop at the same cap with PollingLimitReached(attempts), and fail on
\* the first failed attempt when poll is off.
C14_SameDisciplineAlways == SameDiscipline

\* C14, amended: the same, as long as the pipe loop has not failed, with poll
\* set, on an error other than 2 and 231; such a failure ends the pipe loop
\* with PipeConnection, while the TCP loop sleeps and tries again.
C14_SameDisciplineOnRetryable ==
    ~(conn_cfg.poll /\ p_res.tag = "PipeConnection") => SameDiscipline

\* Both loops have stopped at the cap of 300.
C14_Witness ==
    /\ conn_cfg.poll /\ conn_cfg.limited_poll
    /\ p_res = PollingLimitReached(<< 0, 300 >>) /\ t_res = p_res
    /\ p_opens = 300 /\ t_opens = 300 /\ t_slept_ms = 200 * 299

\* ------------------------------------------------------------- parse_assuan_file

NONCE_SIZE == 16

\* A String holds UTF-8: of the bytes the model draws, ASCII and 0xFF, the
\* ASCII ones.
ValidUtf8(bytes) == \A i \in 1..Len(bytes) : bytes[i] < 128

\* reader.read_line: the bytes up to and with the first \n, or all of them.
LineEnd(bytes) ==
    IF \E i \in 1..Len(bytes) : bytes[i] = 10
    THEN CHOOSE i \in 1..Len(bytes) :
            bytes[i] = 10 /\ \A j \in 1..(i - 1) : bytes[j] # 10
    ELSE Len(bytes)

RECURSIVE TrimEnd_NewlineOnly(_)
\* A variant of TrimEnd: only \n is trimmed.
TrimEnd_NewlineOnly(str) ==
    IF str # << >> /\ str[Len(str)] = 10
    THEN TrimEnd_NewlineOnly(SubSeq(str, 1, Len(str) - 1))
    ELSE str

RECURSIVE TrimEnd(_)
\* trim_end_matches(|c| c == '\r' || c == '\n')
TrimEnd(str) ==
    IF str # << >> /\ str[Len(str)] \in {13, 10}
    THEN TrimEnd(SubSeq(str, 1, Len(str) - 1))
    ELSE str

ParseErr == [ok |-> FALSE, val |-> 0]

\* A variant of Accumulate: the product and the sum wrap round at 16 bits.
Accumulate_Wrapping(acc, d) == [ok |-> TRUE, val |-> (acc * 10 + d) % 65536]

\* checked_mul(10) and checked_add(digit) of a u16.
Accumulate(acc, d) ==
    IF acc * 10 > 65535 \/ acc * 10 + d > 65535
    THEN ParseErr
    ELSE [ok |-> TRUE, val |-> acc * 10 + d]

RECURSIVE ParseDigits(_, _, _)
\* The digits from the i-th on, onto acc.
ParseDigits(str, i, acc) ==
    IF i > Len(str) THEN [ok |-> TRUE, val |-> acc]
    ELSE IF str[i] \notin 48..57 THEN ParseErr
    ELSE LET r == Accumulate(acc, str[i] - 48)
         IN  IF r.ok THEN ParseDigits(str, i + 1, r.val) ELSE ParseErr

\* str.parse::<u16>(): empty and a lone sign are errors, one leading '+' is
\* passed over, a '-' is no digit.
ParseU16(str) ==
    IF str = << >> THEN ParseErr
    ELSE IF Len(str) = 1 /\ str[1] \in {43, 45} THEN ParseErr
    ELSE IF str[1] = 43 THEN ParseDigits(str, 2, 0)
    ELSE ParseDigits(str, 1, 0)

AssuanParse(cause) == [tag |-> "AssuanParse", arg |-> cause]
Parsed(port, nonce) == [tag |-> "Ok", arg |-> << port, nonce >>]

parse_assuan_file(f) ==
    IF f.fault = "open" THEN AssuanParse("cannot open file")
    ELSE
    LET end       == LineEnd(f.bytes)
        port_line == SubSeq(f.bytes, 1, end)
        rest      == SubSeq(f.bytes, end + 1, Len(f.bytes))
        port_str  == TrimEnd(port_line)
        port      == ParseU16(port_str)
    IN  IF f.fault = "read_line" \/ ~ValidUtf8(port_line)
        THEN AssuanParse("cannot read port line")
        ELSE IF ~port.ok
        THEN AssuanParse("invalid port number")
        ELSE IF f.fault = "read_exact" \/ Len(rest) < NONCE_SIZE
        THEN AssuanParse("cannot read nonce")
        ELSE Parsed(port.val, SubSeq(rest, 1, NONCE_SIZE))

\* The ? after parse_assuan_file: an error is what connect_assuan, and then
\* real_main, returns; otherwise connect_with_retry is called.
M_AfterParse(r) ==
    IF r.tag = "Ok"
    THEN /\ pcM' = "connect"
         /\ t_pc' = "open"
         /\ UNCHANGED main_res
    ELSE /\ pcM' = "returned"
         /\ main_res' = r
         /\ UNCHANGED t_pc

\* connect_assuan: let (port, nonce) = parse_assuan_file(&config.pipe_name)?
M_Parse ==
    /\ Running /\ pcM = "parse"
    /\ parse_res' = parse_assuan_file(rfile)
    /\ M_AfterParse(parse_res')
    /\ UNCHANGED << conn_cfg, round, outcome, pVars, t_attempts, t_res, t_opens,
                    t_sleeps, t_slept_ms, stderr, rfile, hs_off, handshake,
                    unitVars, poolVars, ownVars, relayAll, exitVars >>

\* ------------------------------------------------------------- parse: runs

\* The rendezvous files the model draws.
Ports == {0, 80, 4711, 65535}
Terminators == { << 10 >>, << 13, 10 >> }
NonceOf(fill, pos, special) ==
    [i \in 1..NONCE_SIZE |-> IF i = pos THEN special ELSE fill]
Nonces == { NonceOf(fill, pos, special) :
               fill \in {0, 65}, pos \in {1, 8, NONCE_SIZE}, special \in {10, 13, 48, 255} }
Trailers == { << >>, << 10 >>, << 49, 13, 10 >> }

\* A file as the server writes it.
RendezvousFile(port, term, nonce, trailer) ==
    Decimal(U32(port)) \o term \o nonce \o trailer

WrittenFiles ==
    { [fault |-> "none", bytes |-> RendezvousFile(port, term, nonce, trailer)] :
         port \in Ports, term \in Terminators, nonce \in Nonces, trailer \in Trailers }

\* First lines of other kinds: empty, "+", "-1", "8a", " 80", "80 ", "65536",
\* "99999", "+65536", "80" with 0xFF, "+80", "0080", "65535".
PortLines ==
    { << >>, << 43 >>, << 45, 49 >>, << 56, 97 >>, << 32, 56, 48 >>, << 56, 48, 32 >>,
      << 54, 53, 53, 51, 54 >>, << 57, 57, 57, 57, 57 >>, << 43, 54, 53, 53, 51, 54 >>,
      << 56, 48, 255 >>, << 43, 56, 48 >>, << 48, 48, 56, 48 >>, << 54, 53, 53, 51, 53 >> }
LineEnds == { << >>, << 10 >>, << 13 >>, << 13, 10 >>, << 13, 13, 10 >>, << 10, 13 >> }
Rests ==
    { << >>, SubSeq(NonceOf(65, 8, 10), 1, NONCE_SIZE - 1), NonceOf(65, 8, 48),
      NonceOf(65, 1, 10), NonceOf(0, NONCE_SIZE, 13) \o << 10 >> }

OtherFiles ==
    { [fault |-> "none", bytes |-> line \o end \o rest] :
         line \in PortLines, end \in LineEnds, rest \in Rests }

\* Files that cannot be opened, or whose read fails.
FaultyFiles ==
    { [fault |-> fault, bytes |-> RendezvousFile(80, term, NonceOf(65, 8, 48), << >>)] :
         fault \in {"open", "read_line", "read_exact"}, term \in Terminators }

Files == WrittenFiles \cup OtherFiles \cup FaultyFiles

\* real_main with --assuan, before connect_assuan.
AssuanStart ==
    /\ round = 0 /\ outcome = None
    /\ p_pc = "off" /\ p_attempts = U32(0) /\ p_res = NotReturned
    /\ p_opens = 0 /\ p_sleeps = 0 /\ p_slept_ms = 0
    /\ t_pc = "off" /\ t_attempts = U32(0) /\ t_res = NotReturned
    /\ t_opens = 0 /\ t_sleeps = 0 /\ t_slept_ms = 0
    /\ parse_res = NotReturned /\ hs_off = 0 /\ handshake = << >>
    /\ pcM = "parse" /\ main_res = NotReturned /\ stderr = << >>

ParseInit ==
    /\ conn_cfg = [poll |-> FALSE, limited_poll |-> FALSE, assuan |-> TRUE]
    /\ rfile \in Files
    /\ AssuanStart
    /\ cfg = NoRelayFlags
    /\ RelayStart
    /\ PoolNew
    /\ NotClosed
    /\ UnitOff

ParseNext == M_Parse \/ Env_Round \/ T_Open \/ M_Connect \/ Main_Exit

ParseSpec == ParseInit /\ [][ParseNext]_vars

\* ------------------------------------------------------------- parse: properties

\* The first line of a file, with its terminator.
FirstLine(bytes) == SubSeq(bytes, 1, LineEnd(bytes))

\* A line without the \r and \n it ends with.
Stripped(line) ==
    LET k == CHOOSE k \in 0..Len(line) :
                /\ k = 0 \/ line[k] \notin {10, 13}
                /\ \A j \in (k + 1)..Len(line) : line[j] \in {10, 13}
    IN  SubSeq(line, 1, k)

RECURSIVE ValueOf(_)
\* The number a sequence of decimal digits writes.
ValueOf(digits) ==
    IF digits = << >> THEN 0
    ELSE 10 * ValueOf(SubSeq(digits, 1, Len(digits) - 1)) + (digits[Len(digits)] - 48)

\* A decimal integer in 0..65535: digits, after a '+' or not.
IsDecimalPort(str) ==
    LET digits == IF str # << >> /\ str[1] = 43 THEN Tail(str) ELSE str
    IN  /\ digits # << >>
        /\ \A i \in 1..Len(digits) : digits[i] \in 48..57
        /\ ValueOf(digits) <= 65535

\* The file is one that the claim says cannot be parsed.
Unparsable(f) ==
    \/ f.fault # "none"
    \/ ~IsDecimalPort(Stripped(FirstLine(f.bytes)))
    \/ Len(f.bytes) - LineEnd(f.bytes) < 16

\* C16: parse_assuan_file returns AssuanParse, connect_assuan and real_main
\* return it, and no TCP connect is attempted, when the file cannot be opened
\* or read, when its first line without its trailing \r and \n is not a
\* decimal integer in 0..65535, or when fewer than 16 bytes follow that line;
\* every other file is parsed.
C16_ParseFailures ==
    parse_res # NotReturned =>
        IF Unparsable(rfile)
        THEN /\ parse_res.tag = "AssuanParse"
             /\ main_res = parse_res /\ pcM \in {"returned", "exited"}
             /\ t_pc = "off" /\ t_opens = 0 /\ round = 0
        ELSE parse_res.tag = "Ok"

\* "65536", a terminator and 16 bytes: out of range.
C16_Witness ==
    /\ rfile.fault = "none"
    /\ Stripped(FirstLine(rfile.bytes)) = << 54, 53, 53, 51, 54 >>
    /\ Len(rfile.bytes) - LineEnd(rfile.bytes) >= 16
    /\ parse_res = AssuanParse("invalid port number")
    /\ pcM = "exited" /\ exit_code = Some(1)

\* C17: a file made of the decimal port, \n or \r\n, and the 16 nonce bytes,
\* with or without further content, parses to exactly that port and nonce.
C17_RoundTrip ==
    \A port \in Ports, term \in Terminators, nonce \in Nonces, trailer \in Trailers :
        ( /\ rfile = [fault |-> "none",
                      bytes |-> RendezvousFile(port, term, nonce, trailer)]
          /\ parse_res # NotReturned )
        => parse_res = Parsed(port, nonce)

\* Port 65535, \r\n, a nonce that begins with \n, and content after it.
C17_Witness ==
    /\ rfile = [fault |-> "none",
                bytes |-> << 54, 53, 53, 51, 53, 13, 10 >> \o NonceOf(0, 1, 10)
                          \o << 49, 13, 10 >>]
    /\ parse_res = Parsed(65535, NonceOf(0, 1, 10))

\* ------------------------------------------------------------- normalize_pipe_path

\* The longest path drawn from PathChars.
MaxPath == 4

\* A path is a sequence of characters.
PathChars == { "/", "\\", ".", "X" }
SlashPipeX == << "/", "/", ".", "/", "p", "i", "p", "e", "/", "X" >>
BackslashPipeX == << "\\", "\\", ".", "\\", "p", "i", "p", "e", "\\", "X" >>
Paths ==
    UNION { [1..n -> PathChars] : n \in 0..MaxPath } \cup { SlashPipeX, BackslashPipeX }

RECURSIVE Replace_FirstOnly(_, _, _)
\* A variant of Replace: only the first `from` is replaced.
Replace_FirstOnly(str, from, to) ==
    IF str = << >> THEN << >>
    ELSE IF Head(str) = from THEN to \o Tail(str)
    ELSE << Head(str) >> \o Replace_FirstOnly(Tail(str), from, to)

RECURSIVE Replace(_, _, _)
\* str::replace(from, to): every character `from` gives way to the string `to`.
Replace(str, from, to) ==
    IF str = << >> THEN << >>
    ELSE (IF Head(str) = from THEN to ELSE << Head(str) >>)
         \o Replace(Tail(str), from, to)

normalize_pipe_path(path) == Replace(path, "/", << "\\" >>)

\* NamedPipe::connect: let pipe_path = normalize_pipe_path(&config.pipe_name)
P_Normalize ==
    /\ pipe_path = None
    /\ pipe_path' = Some(normalize_pipe_path(pipe_name))
    /\ UNCHANGED << pipe_name, bp_err, bp_out, connVars, mainVars, assuanVars,
                    poolVars, ownVars, relayAll, exitVars >>

NormalizeInit ==
    /\ pipe_name \in Paths /\ pipe_path = None
    /\ bp_err = None /\ bp_out = None
    /\ cfg = NoRelayFlags
    /\ RelayStart
    /\ PoolNew
    /\ NotClosed
    /\ ConnIdle
    /\ MainInRelay
    /\ AssuanOff

NormalizeNext == P_Normalize

NormalizeSpec == NormalizeInit /\ [][NormalizeNext]_vars

\* C18: the normalized path is a fixed point of normalization, is as long as
\* the path, holds no '/', has '\' where the path has '/' and the path's
\* character everywhere else; //./pipe/X gives \\.\pipe\X, which gives itself.
C18_NormalizeFolds ==
    pipe_path # None =>
        LET x == pipe_name
            y == pipe_path[1]
        IN  /\ normalize_pipe_path(y) = y
            /\ Len(y) = Len(x)
            /\ \A i \in 1..Len(y) : y[i] # "/"
            /\ \A i \in 1..Len(x) : y[i] = (IF x[i] = "/" THEN "\\" ELSE x[i])
            /\ x \in {SlashPipeX, BackslashPipeX} => y = BackslashPipeX

\* //./pipe/X has been normalized.
C18_Witness ==
    /\ pipe_name = << "/", "/", ".", "/", "p", "i", "p", "e", "/", "X" >>
    /\ pipe_path = Some(<< "\\", "\\", ".", "\\", "p", "i", "p", "e", "\\", "X" >>)

\* ------------------------------------------------------------- is_broken_pipe

\* io::Error values of any kind with any raw OS code or none; which kind an
\* OS code decodes to is the platform's matter and is left open.
ErrorKinds ==
    { "BrokenPipe", "NotFound", "Uncategorized", "Interrupted", "WriteZero",
      "ConnectionReset", "UnexpectedEof", "PermissionDenied" }
OsCodes == { 0, 2, 5, 108, 109, 110, 231, 232, 233, 234 }
AllIoErrors == [kind : ErrorKinds, os : {None} \cup { Some(c) : c \in OsCodes }]

\* stdin_to_pipe, pipe_to_stdout: is_broken_pipe(&e)
BP_Test ==
    /\ bp_err # None /\ bp_out = None
    /\ bp_out' = Some(is_broken_pipe(bp_err[1]))
    /\ UNCHANGED << pipe_name, pipe_path, bp_err, connVars, mainVars, assuanVars,
                    poolVars, ownVars, relayAll, exitVars >>

BrokenPipeInit ==
    /\ bp_err \in { Some(e) : e \in AllIoErrors } /\ bp_out = None
    /\ pipe_name = << >> /\ pipe_path = None
    /\ cfg = NoRelayFlags
    /\ RelayStart
    /\ PoolNew
    /\ NotClosed
    /\ ConnIdle
    /\ MainInRelay
    /\ AssuanOff

BrokenPipeNext == BP_Test

BrokenPipeSpec == BrokenPipeInit /\ [][BrokenPipeNext]_vars

\* C19: is_broken_pipe is true of an error exactly when its kind is
\* BrokenPipe or its raw OS code is 109 or 233.
C19_BrokenPipeIff ==
    bp_out # None =>
        (bp_out[1] <=> \/ bp_err[1].kind = "BrokenPipe"
                       \/ bp_err[1].os = << 109 >>
                       \/ bp_err[1].os = << 233 >>)

\* An error of another kind with OS code 233 has been found a broken pipe.
C19_Witness ==
    /\ bp_err = Some([kind |-> "Uncategorized", os |-> << 233 >>])
    /\ bp_out = Some(TRUE)

\* ------------------------------------------------------------- real_main

\* Ok(()) of real_main.
OkUnit == [tag |-> "Ok", arg |-> 0]
\* An io::Error that ? hands on as it is.
IoError(e) == [tag |-> "io::Error", arg |-> e]

\* The nonce that parse_assuan_file returned.
nonce == parse_res.arg[2]

\* A variant of M_AfterNonce: the outcome of the write is dropped.
M_AfterNonce_GoesOn(res) ==
    /\ pcM' = "clone"
    /\ UNCHANGED main_res

\* .map_err(BatonError::AssuanConnection)? and Ok(stream)
M_AfterNonce(res) ==
    IF res.ok
    THEN /\ pcM' = "clone"
         /\ UNCHANGED main_res
    ELSE /\ pcM' = "returned"
         /\ main_res' = AssuanConnection(res.err[1])

\* stream.write_all(&nonce): one write of the loop. A short write goes on
\* with the rest, Ok(0) is WriteZero, Interrupted is tried again.
M_NonceWrite ==
    /\ Running /\ pcM = "nonce"
    /\ \/ \E n \in 1..(NONCE_SIZE - hs_off) :
            /\ handshake' = handshake \o SubSeq(nonce, hs_off + 1, hs_off + n)
            /\ hs_off' = hs_off + n
            /\ IF hs_off' = NONCE_SIZE
               THEN M_AfterNonce(Ok)
               ELSE UNCHANGED << pcM, main_res >>
       \/ /\ M_AfterNonce(Err(WriteZero))
          /\ UNCHANGED << hs_off, handshake >>
       \/ \E e \in IoErrors :
            /\ IF e.kind = "Interrupted"
               THEN UNCHANGED << pcM, main_res >>
               ELSE M_AfterNonce(Err(e))
            /\ UNCHANGED << hs_off, handshake >>
    /\ UNCHANGED << connVars, stderr, rfile, parse_res, unitVars, poolVars, ownVars, relayAll, exitVars >>

\* let reader = stream.try_clone()?
M_Clone ==
    /\ Running /\ pcM = "clone"
    /\ \/ pcM' = "relay" /\ UNCHANGED main_res
       \/ \E e \in IoErrors :
            /\ pcM' = "returned"
            /\ main_res' = IoError(e)
    /\ UNCHANGED << connVars, stderr, assuanVars, unitVars, poolVars, ownVars, relayAll, exitVars >>

\* A variant of M_AfterRelay: real_main returns Ok(()) whatever run_relay did.
M_AfterRelay_AlwaysOk(res) == OkUnit

\* relay::run_relay(reader, writer, &config)?; Ok(())
M_AfterRelay(res) == IF res.ok THEN OkUnit ELSE IoError(res.err[1])

\* A variant of the drop of NamedPipe: the handle is left open.
Drop_NamedPipe_Forgotten(n) == n

\* Drop for NamedPipe: CloseHandle(self.handle)
Drop_NamedPipe(n) == n + 1

\* run_relay has returned, and real_main returns its error or Ok(()); on both
\* ways out of the pipe branch the NamedPipe goes out of scope.
M_Relay ==
    /\ Running /\ pcM = "relay" /\ pcR = "returned"
    /\ main_res' = M_AfterRelay(result)
    /\ closes' = IF conn_cfg.assuan THEN closes ELSE Drop_NamedPipe(closes)
    /\ pcM' = "returned"
    /\ UNCHANGED << connVars, stderr, assuanVars, unitVars, poolVars, relayAll, exitVars >>

Main == M_Parse \/ M_Connect \/ M_NonceWrite \/ M_Clone \/ M_Relay \/ Main_Exit

\* ------------------------------------------------------------- real_main: runs

\* A rendezvous file that parses, and one with a nonce of 15 bytes.
MainFiles ==
    { [fault |-> "none",
       bytes |-> RendezvousFile(4711, << 13, 10 >>, NonceOf(65, 8, 10), << >>)],
      [fault |-> "none",
       bytes |-> << 56, 48, 10 >> \o SubSeq(NonceOf(65, 8, 10), 1, NONCE_SIZE - 1)] }

\* real_main without --assuan, at NamedPipe::connect.
PipeStart ==
    /\ round = 0 /\ outcome = None
    /\ p_pc = "open" /\ p_attempts = U32(0) /\ p_res = NotReturned
    /\ p_opens = 0 /\ p_sleeps = 0 /\ p_slept_ms = 0
    /\ t_pc = "off" /\ t_attempts = U32(0) /\ t_res = NotReturned
    /\ t_opens = 0 /\ t_sleeps = 0 /\ t_slept_ms = 0
    /\ pcM = "connect" /\ main_res = NotReturned /\ stderr = << >>

\* real_main after cli::parse, without --poll.
MainInit ==
    /\ conn_cfg \in { c \in ConnConfigs : ~c.poll /\ ~c.limited_poll }
    /\ IF conn_cfg.assuan
       THEN /\ rfile \in MainFiles
            /\ AssuanStart
       ELSE /\ PipeStart
            /\ AssuanOff
    /\ cfg \in Configs
    /\ RelayStart
    /\ PoolNew
    /\ NotClosed
    /\ UnitOff

MainNext == Main \/ Env_Round \/ P_Open \/ T_Open \/ PumpA \/ PumpB \/ Relay

MainSpec == MainInit /\ [][MainNext]_vars

\* ------------------------------------------------------------- real_main: properties

\* The 16 bytes that follow the first line of the rendezvous file.
FileNonce == SubSeq(rfile.bytes, LineEnd(rfile.bytes) + 1, LineEnd(rfile.bytes) + 16)

\* run_relay has been entered.
RelayStarted == pcR # "spawn" \/ pcA # "unborn" \/ pcB # "unborn"

\* C15: with --assuan, bytes are written to the stream before the relay only
\* after the TCP connect succeeded, and they are the first bytes of the nonce
\* of the file, in order; until all 16 are written nothing is read from the
\* stream and the relay writes nothing; the relay starts only after all 16;
\* a failed nonce write makes real_main return AssuanConnection with the
\* relay never started.
C15_NonceFirst ==
    /\ handshake # << >> =>
          /\ conn_cfg.assuan /\ t_res = Connected /\ parse_res.tag = "Ok"
          /\ IsPrefix(handshake, FileNonce)
    /\ Len(handshake) = hs_off /\ hs_off <= 16
    /\ (conn_cfg.assuan /\ hs_off < 16) =>
          /\ ~RelayStarted
          /\ peer_read = << >> /\ peer_written = << >> /\ zero_writes = 0
    /\ (conn_cfg.assuan /\ RelayStarted) =>
          /\ handshake = FileNonce /\ Len(handshake) = 16
          /\ handshake = parse_res.arg[2]
    /\ (conn_cfg.assuan /\ t_res = Connected /\ hs_off < 16
          /\ pcM \in {"returned", "exited"}) =>
          main_res.tag = "AssuanConnection"
    /\ main_res.tag = "AssuanConnection" =>
          /\ ~RelayStarted
          /\ stdin_read = << >> /\ stdout_written = << >>

\* The whole nonce was written, then the relay wrote stdin's bytes to the peer.
C15_Witness ==
    /\ conn_cfg.assuan
    /\ handshake = NonceOf(65, 8, 10)
    /\ peer_written # << >>

\* connect, or what real_main does before run_relay, has failed.
ConnectFailed ==
    \/ parse_res.tag = "AssuanParse"
    \/ ConnectResult.tag \in {"PipeConnection", "AssuanConnection", "PollingLimitReached"}
    \/ main_res.tag \in {"AssuanConnection", "io::Error"} /\ pcR = "spawn"

\* run_relay has returned an error.
RelayFailed == pcR = "returned" /\ ~result.ok

\* C20: the process exits with 0 or 1; with 1, after one diagnostic that
\* begins "baton error: ", when connect or run_relay returned an error, and
\* with 0, without a diagnostic, otherwise; after a failed connect the relay
\* is not started, stdin is not read and stdout is not written.
C20_ExitCodes ==
    /\ exit_code # None =>
          IF ConnectFailed \/ RelayFailed
          THEN /\ exit_code = Some(1)
               /\ Len(stderr) = 1 /\ stderr[1][1] = "baton error: "
          ELSE /\ exit_code = Some(0)
               /\ stderr = << >>
    /\ ConnectFailed =>
          /\ ~RelayStarted
          /\ stdin_read = << >> /\ stdout_written = << >> /\ peer_written = << >>

\* ======================================================= the event pool
\* win/overlapped.rs: EventPool, EventGuard, async_read and async_write.  The
\* reader and the writer of main.rs share one pool; Pump B's reads and Pump A's
\* writes are the two operations that can be under way at once.

ERROR_IO_PENDING == 997

MaxEvents == 3      \* CreateEventW is not called beyond this many events
MaxXfer == 1        \* bytes one ReadFile / WriteFile transfers at most

\* io::Error::from_raw_os_error, io::Error::last_os_error
from_raw_os_error(code) == [kind |-> "Uncategorized", os |-> Some(code)]
\* Ok(bytes_read), Ok(bytes_written), Ok(transferred)
OkBytes(n) == [tag |-> "Ok", arg |-> n]

\* Codes GetLastError can hold after each call: a failed CreateEventW, a
\* ReadFile / WriteFile (stale values included when the call succeeded), a
\* failed WaitForSingleObject, a failed GetOverlappedResult.
CreateErrors == {8}
IssueErrors == {0, ERROR_IO_PENDING, ERROR_BROKEN_PIPE}
WaitErrors == {6}
ResultErrors == {ERROR_BROKEN_PIPE}

\* What a ReadFile / WriteFile call can return: result, the count it stored,
\* the thread's last-error value, and whether it left the event signaled (a
\* call that completes at once signals the event as well).
IssueOutcomes ==
    { io \in [result : {0, 1}, bytes : 0..MaxXfer, last_error : IssueErrors,
              signaled : BOOLEAN] :
        /\ io.result = 0 => io.bytes = 0 /\ ~io.signaled /\ io.last_error # 0
        /\ io.result # 0 => io.signaled }

\* CreateEventW(security, bManualReset, bInitialState, name): the new object.
CreateEventW(bManualReset, bInitialState) ==
    [manual |-> bManualReset # 0, signaled |-> bInitialState # 0]

\* A variant of Vec::pop: the last element is read but left in the Vec.
Pop_Peek(v) ==
    IF v = << >> THEN [some |-> FALSE, h |-> 0, rest |-> v]
    ELSE [some |-> TRUE, h |-> v[Len(v)], rest |-> v]

\* A variant of Vec::pop: it finds the Vec empty every time.
Pop_Never(v) == [some |-> FALSE, h |-> 0, rest |-> v]

\* Vec::pop: the last element, if any, is taken out.
Pop(v) ==
    IF v = << >> THEN [some |-> FALSE, h |-> 0, rest |-> v]
    ELSE [some |-> TRUE, h |-> v[Len(v)], rest |-> SubSeq(v, 1, Len(v) - 1)]

\* A variant of reset_event: the event is left as it is.
reset_event_Skipped(h) == ev_obj

\* reset_event: ResetEvent(h)
reset_event(h) == [ev_obj EXCEPT ![h].signaled = FALSE]

\* A variant of the classification: the last-error value is looked at first.
Classify_ErrorFirst(io) ==
    IF io.last_error = ERROR_IO_PENDING THEN "pending"
    ELSE IF io.result # 0 THEN "inline"
    ELSE "error"

\* async_read, async_write: result != 0 returns the count; otherwise
\* check_io_pending tells ERROR_IO_PENDING from every other error.
Classify(io) ==
    IF io.result # 0 THEN "inline"
    ELSE IF io.last_error = ERROR_IO_PENDING THEN "pending"
    ELSE "error"

\* What no step of an operation touches.
PoolOthers ==
    << connVars, mainVars, assuanVars, unitVars, ownVars, relayAll, exitVars >>

\* The operation o is called: PipeWriter::write or PipeReader::read.
Op_Call(o) ==
    /\ op_pc[o] = "idle"
    /\ UNCHANGED PoolOthers
    /\ op_pc' = [op_pc EXCEPT ![o] = "lock"]
    /\ op_io' = [op_io EXCEPT ![o] = NoIo]
    /\ op_res' = [op_res EXCEPT ![o] = NotReturned]
    /\ op_hist' = [op_hist EXCEPT ![o] = NoHist]
    /\ UNCHANGED << ev_pool, ev_lock, ev_created, ev_obj, op_ev >>

\* EventPool::get: self.inner.lock()
Get_Lock(o) ==
    /\ op_pc[o] = "lock"
    /\ UNCHANGED PoolOthers
    /\ ev_lock = "free"
    /\ ev_lock' = o
    /\ op_pc' = [op_pc EXCEPT ![o] = "pop"]
    /\ UNCHANGED << ev_pool, ev_created, ev_obj, op_ev, op_io, op_res, op_hist >>

\* EventPool::get: events.pop(); Some(h) is reset and returned, the lock let
\* go of with it; on None the lock is dropped before an event is created.
Get_Pop(o) ==
    /\ op_pc[o] = "pop"
    /\ UNCHANGED PoolOthers
    /\ ev_lock = o
    /\ LET p == Pop(ev_pool) IN
        /\ ev_pool' = p.rest
        /\ ev_lock' = "free"
        /\ IF p.some
           THEN /\ ev_obj' = reset_event(p.h)
                /\ op_ev' = [op_ev EXCEPT ![o] = Some(p.h)]
                /\ op_hist' = [op_hist EXCEPT ![o].gets = @ + 1, ![o].got = p.h]
                /\ op_pc' = [op_pc EXCEPT ![o] = "issue"]
           ELSE /\ op_pc' = [op_pc EXCEPT ![o] = "create"]
                /\ UNCHANGED << ev_obj, op_ev, op_hist >>
    /\ UNCHANGED << ev_created, op_io, op_res >>

\* create_manual_reset_event: CreateEventW(null, 1, 0, null) gives a new
\* event, which EventGuard::new keeps.
Get_Create_Ok(o) ==
    /\ op_pc[o] = "create"
    /\ UNCHANGED PoolOthers
    /\ ev_created < MaxEvents
    /\ LET h == ev_created + 1 IN
        /\ ev_created' = h
        /\ ev_obj' = Append(ev_obj, CreateEventW(1, 0))
        /\ op_ev' = [op_ev EXCEPT ![o] = Some(h)]
        /\ op_hist' = [op_hist EXCEPT ![o].gets = @ + 1, ![o].got = h,
                                      ![o].fresh = TRUE]
    /\ op_pc' = [op_pc EXCEPT ![o] = "issue"]
    /\ UNCHANGED << ev_pool, ev_lock, op_io, op_res >>

\* create_manual_reset_event: CreateEventW gives null; EventGuard::new(pool)?
\* returns the error from the operation.
Get_Create_Fails(o) ==
    /\ op_pc[o] = "create"
    /\ UNCHANGED PoolOthers
    /\ \E code \in CreateErrors :
        op_res' = [op_res EXCEPT ![o] = IoError(from_raw_os_error(code))]
    /\ op_pc' = [op_pc EXCEPT ![o] = "idle"]
    /\ UNCHANGED << ev_pool, ev_lock, ev_created, ev_obj, op_ev, op_io, op_hist >>

\* async_read, async_write: ReadFile / WriteFile with the guard's event in
\* OVERLAPPED, and what follows from its return value.
Op_Issue(o) ==
    /\ op_pc[o] = "issue"
    /\ UNCHANGED PoolOthers
    /\ \E io \in IssueOutcomes :
        /\ op_io' = [op_io EXCEPT ![o] = io]
        /\ ev_obj' = [ev_obj EXCEPT ![op_ev[o][1]].signaled = io.signaled]
        /\ CASE Classify(io) = "inline" ->
                  /\ op_res' = [op_res EXCEPT ![o] = OkBytes(io.bytes)]
                  /\ op_pc' = [op_pc EXCEPT ![o] = "drop"]
                  /\ op_hist' = [op_hist EXCEPT ![o].calls = @ + 1]
             [] Classify(io) = "pending" ->
                  /\ op_pc' = [op_pc EXCEPT ![o] = "wait"]
                  /\ op_hist' = [op_hist EXCEPT ![o].calls = @ + 1,
                                                ![o].errs = @ + 1]
                  /\ UNCHANGED op_res
             [] OTHER ->
                  /\ op_res' = [op_res EXCEPT
                                  ![o] = IoError(from_raw_os_error(io.last_error))]
                  /\ op_pc' = [op_pc EXCEPT ![o] = "drop"]
                  /\ op_hist' = [op_hist EXCEPT ![o].calls = @ + 1,
                                                ![o].errs = @ + 1]
    /\ UNCHANGED << ev_pool, ev_lock, ev_created, op_ev >>

\* The system completes the pending transfer and signals its event.
Os_Complete(o) ==
    /\ op_pc[o] = "wait"
    /\ UNCHANGED PoolOthers
    /\ ~ev_obj[op_ev[o][1]].signaled
    /\ ev_obj' = [ev_obj EXCEPT ![op_ev[o][1]].signaled = TRUE]
    /\ UNCHANGED << ev_pool, ev_lock, ev_created, op_pc, op_ev, op_io, op_res,
                    op_hist >>

\* WaitForSingleObject(event, INFINITE) returns WAIT_OBJECT_0 once the event
\* is signaled; an auto-reset event would be reset by it.
Op_Wait_Signaled(o) ==
    /\ op_pc[o] = "wait"
    /\ UNCHANGED PoolOthers
    /\ ev_obj[op_ev[o][1]].signaled
    /\ ev_obj' = [ev_obj EXCEPT
                    ![op_ev[o][1]].signaled = ev_obj[op_ev[o][1]].manual]
    /\ op_hist' = [op_hist EXCEPT ![o].waits = @ + 1, ![o].wait = "WAIT_OBJECT_0"]
    /\ op_pc' = [op_pc EXCEPT ![o] = "result"]
    /\ UNCHANGED << ev_pool, ev_lock, ev_created, op_ev, op_io, op_res >>

\* WaitForSingleObject returns something else: Err(last_os_error()).
Op_Wait_Fails(o) ==
    /\ op_pc[o] = "wait"
    /\ UNCHANGED PoolOthers
    /\ \E code \in WaitErrors :
        op_res' = [op_res EXCEPT ![o] = IoError(from_raw_os_error(code))]
    /\ op_hist' = [op_hist EXCEPT ![o].waits = @ + 1, ![o].wait = "WAIT_FAILED"]
    /\ op_pc' = [op_pc EXCEPT ![o] = "drop"]
    /\ UNCHANGED << ev_pool, ev_lock, ev_created, ev_obj, op_ev, op_io >>

\* GetOverlappedResult(handle, &overlapped, &mut transferred, 0)
Op_Result(o) ==
    /\ op_pc[o] = "result"
    /\ UNCHANGED PoolOthers
    /\ \/ \E n \in 0..MaxXfer :
            /\ op_res' = [op_res EXCEPT ![o] = OkBytes(n)]
            /\ op_hist' = [op_hist EXCEPT ![o].gors = @ + 1, ![o].gor = Some(n)]
       \/ \E code \in ResultErrors :
            /\ op_res' = [op_res EXCEPT ![o] = IoError(from_raw_os_error(code))]
            /\ op_hist' = [op_hist EXCEPT ![o].gors = @ + 1, ![o].gor = None]
    /\ op_pc' = [op_pc EXCEPT ![o] = "drop"]
    /\ UNCHANGED << ev_pool, ev_lock, ev_created, ev_obj, op_ev, op_io >>

\* A variant of the drop of EventGuard: the event is put back only when the
\* operation returns Ok.
Guard_Drop_OnOkOnly(o) ==
    /\ op_pc[o] = "drop"
    /\ UNCHANGED PoolOthers
    /\ ev_lock = "free"
    /\ IF op_res[o].tag = "Ok"
       THEN /\ ev_pool' = Append(ev_pool, op_ev[o][1])
            /\ op_hist' = [op_hist EXCEPT ![o].puts = @ + 1, ![o].put = op_ev[o][1]]
       ELSE UNCHANGED << ev_pool, op_hist >>
    /\ op_ev' = [op_ev EXCEPT ![o] = None]
    /\ op_pc' = [op_pc EXCEPT ![o] = "idle"]
    /\ UNCHANGED << ev_lock, ev_created, ev_obj, op_io, op_res >>

\* Drop for EventGuard as the operation returns: self.pool.put(self.handle),
\* which is self.inner.lock().unwrap().push(h).
Guard_Drop(o) ==
    /\ op_pc[o] = "drop"
    /\ UNCHANGED PoolOthers
    /\ ev_lock = "free"
    /\ ev_pool' = Append(ev_pool, op_ev[o][1])
    /\ op_hist' = [op_hist EXCEPT ![o].puts = @ + 1, ![o].put = op_ev[o][1]]
    /\ op_ev' = [op_ev EXCEPT ![o] = None]
    /\ op_pc' = [op_pc EXCEPT ![o] = "idle"]
    /\ UNCHANGED << ev_lock, ev_created, ev_obj, op_io, op_res >>

\* EventPool::get
EventPool_get(o) ==
    Get_Lock(o) \/ Get_Pop(o) \/ Get_Create_Ok(o) \/ Get_Create_Fails(o)

\* async_read (o = "r") and async_write (o = "w")
async_io(o) ==
    \/ Op_Call(o)
    \/ EventPool_get(o)
    \/ Op_Issue(o)
    \/ Op_Wait_Signaled(o)
    \/ Op_Wait_Fails(o)
    \/ Op_Result(o)
    \/ Guard_Drop(o)

\* The pipe is connected and its two halves are in the pumps' hands.
PoolInit ==
    /\ cfg \in Configs
    /\ RelayStart
    /\ PoolNew
    /\ NotClosed
    /\ ConnIdle
    /\ MainInRelay
    /\ AssuanOff
    /\ UnitOff

PoolNext == \E o \in Ops : async_io(o) \/ Os_Complete(o)

PoolSpec == PoolInit /\ [][PoolNext]_vars

\* ------------------------------------------------------- claims C21..C26

\* The operation o has returned.
Returned(o) == op_pc[o] = "idle" /\ op_res[o] # NotReturned
\* The operation o returned the error of a failed EventPool::get.
GetFailed(o) == Returned(o) /\ op_hist[o].gets = 0
\* The events that operations hold.
Held == { op_ev[o][1] : o \in { x \in Ops : op_ev[x] # None } }

\* C21: every overlapped read or write takes exactly one event from the pool
\* and puts exactly that event back exactly once as it returns, on every exit
\* path; when the get fails the operation returns that error, has issued no
\* ReadFile / WriteFile, has put nothing, and has left the pool as it was and
\* unlocked.
C21_OneEventPerOperation ==
    [][\A o \in Ops :
        /\ op_hist'[o].puts <= op_hist'[o].gets
        /\ op_hist'[o].gets <= 1
        /\ op_hist'[o].calls > 0 => op_hist'[o].gets = 1
        /\ (op_pc'[o] # op_pc[o] /\ op_hist'[o].gets = 0) =>
                ev_pool' = ev_pool /\ ev_created' = ev_created /\ ev_obj' = ev_obj
        /\ (op_pc[o] # "idle" /\ op_pc'[o] = "idle") =>
                IF op_hist[o].gets = 0
                THEN /\ op_res'[o] \in { IoError(from_raw_os_error(c)) : c \in CreateErrors }
                     /\ op_hist'[o].calls = 0
                     /\ op_hist'[o].puts = 0
                     /\ ev_pool' = ev_pool
                     /\ ev_lock' # o
                ELSE /\ op_res'[o] # NotReturned
                     /\ op_hist'[o].gets = 1
                     /\ op_hist'[o].puts = 1
                     /\ op_hist'[o].put = op_hist'[o].got
                     /\ ev_pool' = Append(ev_pool, op_hist[o].got)
                     /\ op_ev'[o] = None
      ]_vars

\* The write returned the error of a failed get while the read, which had
\* waited in vain, returned its error and its event.
C21_Witness ==
    /\ GetFailed("w")
    /\ Returned("r") /\ op_hist["r"].wait = "WAIT_FAILED"
    /\ op_hist["r"].puts = 1 /\ ev_pool = << op_hist["r"].got >>

\* C22: EventPool::get yields a non-signaled event: from a pool that is not
\* empty it pops the handle returned last, resets it and creates none; only
\* after it found the pool empty does it create an event, manual-reset and
\* not signaled.
C22_GetYieldsUnsignaled ==
    [][\A o \in Ops :
        /\ (op_pc[o] = "pop" /\ op_pc'[o] # "pop") =>
                IF ev_pool # << >>
                THEN /\ op_pc'[o] = "issue"
                     /\ op_ev'[o] = Some(ev_pool[Len(ev_pool)])
                     /\ ev_pool' = SubSeq(ev_pool, 1, Len(ev_pool) - 1)
                     /\ ev_created' = ev_created
                ELSE /\ op_pc'[o] = "create"
                     /\ op_ev'[o] = None
                     /\ ev_created' = ev_created
        /\ (op_pc'[o] = "create" /\ op_pc[o] # "create") =>
                op_pc[o] = "pop" /\ ev_pool = << >>
        /\ (op_pc'[o] = "issue" /\ op_pc[o] # "issue") =>
                /\ op_ev'[o] # None
                /\ ~ev_obj'[op_ev'[o][1]].signaled
                /\ op_pc[o] = "create" =>
                    /\ ev_created' = ev_created + 1
                    /\ op_ev'[o] = Some(ev_created')
                    /\ ev_obj'[ev_created'] = [manual |-> TRUE, signaled |-> FALSE]
        /\ ev_created' # ev_created =>
                \E x \in Ops : op_pc[x] = "create" /\ op_pc'[x] = "issue"
      ]_vars

\* The read has popped the event that the write, completed at once, had put
\* back signaled.
C22_Witness ==
    /\ op_pc["r"] = "issue" /\ ~op_hist["r"].fresh
    /\ Returned("w") /\ op_io["w"].signaled
    /\ op_hist["r"].got = op_hist["w"].put

\* C24: no event handle is held by two operations, none is held and in the
\* pool, and none is in the pool twice.
C24_NoSharing ==
    /\ \A o1, o2 \in Ops :
        (o1 # o2 /\ op_ev[o1] # None /\ op_ev[o2] # None) => op_ev[o1] # op_ev[o2]
    /\ \A i \in 1..Len(ev_pool) : ev_pool[i] \notin Held
    /\ \A i, j \in 1..Len(ev_pool) : i # j => ev_pool[i] # ev_pool[j]

\* The read is popping from a pool of two events while the write waits for the
\* lock.
C24_Witness ==
    /\ ev_lock = "r" /\ op_pc["r"] = "pop"
    /\ op_pc["w"] = "lock"
    /\ Len(ev_pool) = 2

\* C25: no more than two events are ever created, and the events in the pool
\* and in use are together no more than two.
C25_AtMostTwo ==
    /\ ev_created <= 2
    /\ Len(ev_pool) + Cardinality(Held) <= 2

\* Both operations hold an event at once, each one popped from the pool.
C25_Witness ==
    /\ ev_created = 2
    /\ \A o \in Ops : op_ev[o] # None /\ ~op_hist[o].fresh

\* C26: the return value of ReadFile / WriteFile is looked at first: success
\* gives the count at once, with no look at the last-error value and no wait;
\* failure with ERROR_IO_PENDING waits and then takes the count from
\* GetOverlappedResult; failure with another code returns that code without a
\* wait; a wait that does not end signaled, or a failing GetOverlappedResult,
\* gives an error and never a count.
C26_ResultFirst ==
    \A o \in Ops :
        (Returned(o) /\ op_hist[o].calls > 0) =>
            LET io == op_io[o]
                h == op_hist[o]
            IN  /\ h.calls = 1
                /\ io.result # 0 =>
                    /\ op_res[o] = OkBytes(io.bytes)
                    /\ h.errs = 0 /\ h.waits = 0 /\ h.gors = 0
                /\ (io.result = 0 /\ io.last_error = ERROR_IO_PENDING) =>
                    /\ h.waits = 1
                    /\ h.wait = "WAIT_OBJECT_0" =>
                        /\ h.gors = 1
                        /\ h.gor # None => op_res[o] = OkBytes(h.gor[1])
                        /\ h.gor = None => op_res[o].tag = "io::Error"
                    /\ h.wait # "WAIT_OBJECT_0" =>
                        /\ h.gors = 0
                        /\ op_res[o].tag = "io::Error"
                /\ (io.result = 0 /\ io.last_error # ERROR_IO_PENDING) =>
                    /\ op_res[o] = IoError(from_raw_os_error(io.last_error))
                    /\ h.waits = 0 /\ h.gors = 0

\* The write completed at once while the last-error value still read
\* ERROR_IO_PENDING; the read was pending and got its count after the wait.
C26_Witness ==
    /\ Returned("w") /\ op_io["w"].result # 0
    /\ op_io["w"].last_error = ERROR_IO_PENDING
    /\ op_res["w"] = OkBytes(1)
    /\ Returned("r") /\ op_io["r"].result = 0 /\ op_hist["r"].gors = 1
    /\ op_res["r"] = OkBytes(1)

\* ------------------------------------------------------- claims C23, C27

\* C23: once run_relay has returned and real_main with it, the pipe handle
\* has been closed exactly once; it is closed by the drop of NamedPipe as
\* real_main returns and by no step of a pump, and never twice.
C23_ClosedOnce ==
    [][/\ closes' <= 1
       /\ (pcM' \in {"returned", "exited"} /\ pcR' = "returned" /\ ~conn_cfg.assuan)
              => closes' = 1
       /\ closes' # closes =>
              /\ pcM = "relay" /\ pcM' = "returned" /\ pcR = "returned"
              /\ ~conn_cfg.assuan
              /\ pcA' = pcA /\ pcB' = pcB
      ]_vars

\* Both pumps have returned, Pump A was joined, real_main returned Ok(()) and
\* the process has ended with code 0.
C23_Witness ==
    /\ ~conn_cfg.assuan /\ joined
    /\ pcM = "exited" /\ main_res = OkUnit /\ exit_code = Some(0)
    /\ closes = 1

\* Pump A calls write on the pipe: a step of write_all or the zero-length
\* write.
PipeWriteStep == pcA \in {"write", "zero"} /\ (pcA' # pcA \/ offA' # offA)
\* Pump B calls read on the pipe.
PipeReadStep == pcB = "read" /\ pcB' # pcB

\* C27: no pump reads from or writes to the pipe handle after the drop of
\* NamedPipe has closed it.
C27_NoUseAfterClose ==
    [][closes > 0 => ~(PipeWriteStep \/ PipeReadStep)]_vars

\* ------------------------------------------------------- claim C28

\* stdin has reached end of file and the process is to go on.
StdinOver == stdin_done /\ ~cfg.exit_on_stdin_eof

\* C28: Pump B does not look at stdin_done: once stdin has reached end of
\* file, exit_on_stdin_eof not being set, Pump A does not end the process,
\* Pump B stops only at the end of the peer's stream or on an error, what it
\* has delivered is what it had read before each read and at a return of
\* Ok(()), and bytes it has read and not yet delivered are delivered unless
\* an error comes first.
C28_PumpBUnaffected ==
    /\ [](StdinOver =>
            /\ exited_by # "A"
            /\ IsPrefix(stdout_written, peer_read)
            /\ pcB = "returned" => (b_ended \/ resB.err # None)
            /\ (pcB = "returned" /\ resB = Ok) => stdout_written = peer_read
            /\ pcB = "read" => stdout_written = peer_read)
    /\ (StdinOver /\ Len(stdout_written) < Len(peer_read))
            ~> (stdout_written = peer_read \/ resB.err # None)

\* Pump A has returned after end of file on stdin while Pump B holds bytes of
\* the peer that stdout has not got yet.
C28_Witness ==
    /\ StdinOver /\ a_eof /\ pcA = "returned"
    /\ pcB = "write" /\ Len(stdout_written) < Len(peer_read)

\* ======================================================= the cap of the loops
\* The connect loops with poll set, looked at from the start and from two
\* later moments of an unlimited run: just before the attempt counter's low
\* 16 bits run over, and two failed attempts before u32::MAX.  round and the
\* opens / sleeps histories count from the moment looked at.

\* The values the attempt counter has at the moments looked at.
CapStarts(config) ==
    IF config.limited_poll THEN { U32(0) }
    ELSE { U32(0), << 0, 65534 >>, << 65535, 65533 >> }

CapInit ==
    /\ conn_cfg \in { c \in ConnConfigs : c.poll }
    /\ round = 0 /\ outcome = None
    /\ \E s \in CapStarts(conn_cfg) : p_attempts = s /\ t_attempts = s
    /\ p_pc = "open" /\ p_res = NotReturned
    /\ p_opens = 0 /\ p_sleeps = 0 /\ p_slept_ms = 0
    /\ t_pc = "open" /\ t_res = NotReturned
    /\ t_opens = 0 /\ t_sleeps = 0 /\ t_slept_ms = 0
    /\ pcM = "connect" /\ main_res = NotReturned /\ stderr = << >>
    /\ cfg = NoRelayFlags
    /\ RelayStart
    /\ PoolNew
    /\ NotClosed
    /\ AssuanOff
    /\ UnitOff

CapNext == Env_Round \/ PipeConnect \/ TcpConnect

CapSpec == CapInit /\ [][CapNext]_vars

\* ------------------------------------------------------- claims C29, C30

\* b is a + 1 as numbers, a below 4294967295.
PlusOne(a, b) ==
    \/ a[2] < 65535 /\ b = << a[1], a[2] + 1 >>
    \/ a[2] = 65535 /\ a[1] < 65535 /\ b = << a[1] + 1, 0 >>

\* "4294967295" in ASCII.
U32MaxDigits == << 52, 50, 57, 52, 57, 54, 55, 50, 57, 53 >>

\* The pipe loop has just made an attempt that failed with a code it retries.
P_FailedRetryable ==
    p_opens' # p_opens /\ outcome # None /\ is_retryable(outcome[1])
\* The TCP loop has just made an attempt that failed.
T_Failed == t_opens' # t_opens /\ outcome # None

\* C29: with poll set and limited_poll clear the cap of both loops is
\* 4294967295: the counter grows by exactly one at each failed attempt that
\* is retried and at no other step, it never goes from 4294967295 to 0, and
\* the attempt that brings it to 4294967295 makes the loop return
\* PollingLimitReached(4294967295).
C29_CapIsU32Max ==
    [][(conn_cfg.poll /\ ~conn_cfg.limited_poll) =>
        /\ Decimal(max_attempts(conn_cfg)) = U32MaxDigits
        /\ Decimal(assuan_max_attempts(conn_cfg)) = U32MaxDigits
        /\ P_FailedRetryable => PlusOne(p_attempts, p_attempts')
        /\ p_attempts' # p_attempts => P_FailedRetryable
        /\ T_Failed => PlusOne(t_attempts, t_attempts')
        /\ t_attempts' # t_attempts => T_Failed
        /\ p_attempts' = U32_MAX =>
              p_pc' = "done" /\ p_res' = PollingLimitReached(U32_MAX)
        /\ t_attempts' = U32_MAX =>
              t_pc' = "done" /\ t_res' = PollingLimitReached(U32_MAX)
        /\ p_res'.tag = "PollingLimitReached" => Decimal(p_res'.arg) = U32MaxDigits
        /\ t_res'.tag = "PollingLimitReached" => Decimal(t_res'.arg) = U32MaxDigits
      ]_vars

\* Both loops have counted up to 4294967295 and returned.
C29_Witness ==
    /\ conn_cfg.poll /\ ~conn_cfg.limited_poll
    /\ p_res = PollingLimitReached(U32_MAX) /\ p_attempts = U32_MAX
    /\ t_res = PollingLimitReached(U32_MAX) /\ t_attempts = U32_MAX
    /\ p_sleeps = 1 /\ t_sleeps = 1

\* C30: with poll set, connect_with_retry retries every failed TCP connect,
\* whatever its error: it never returns AssuanConnection, each failure is
\* counted and followed by the sleep or by PollingLimitReached, and
\* PollingLimitReached comes at exactly 300 attempts with limited_poll and at
\* 4294967295 without.
C30_TcpRetriesAll ==
    [][conn_cfg.poll =>
        /\ t_res'.tag \in {"Pending", "Ok", "PollingLimitReached"}
        /\ T_Failed =>
              /\ PlusOne(t_attempts, t_attempts')
              /\ t_pc' = "sleep" \/ t_res' = PollingLimitReached(t_attempts')
        /\ t_res'.tag = "PollingLimitReached" =>
              /\ t_res'.arg = t_attempts'
              /\ t_attempts' = IF conn_cfg.limited_poll
                               THEN U32(assuan_MAX_POLL_ATTEMPTS) ELSE U32_MAX
        /\ t_pc' = "sleep" =>
              U32Gt(IF conn_cfg.limited_poll
                    THEN U32(assuan_MAX_POLL_ATTEMPTS) ELSE U32_MAX, t_attempts')
      ]_vars

\* Access denied stopped the pipe loop at once; the TCP loop retried it and
\* went on to the cap.
C30_Witness ==
    /\ conn_cfg.poll /\ ~conn_cfg.limited_poll
    /\ p_res = PipeConnection(5)
    /\ t_res = PollingLimitReached(U32_MAX)

\* ------------------------------------------------------- claim C31

\* Pump A has stored stdin_done without having seen end of file: its read of
\* stdin failed.
StdinReadFailed == stdin_done /\ ~a_eof

\* C31: a failed read of stdin makes Pump A store stdin_done and return
\* Ok(()) in one go, with nothing written to the peer, no zero-length write
\* and no exit, whatever send_zero and exit_on_stdin_eof are, and with
\* pipe_done as it was; from then on Pump A does nothing more, and what
\* run_relay returns is what Pump B returned.
C31_StdinErrorEndsPumpA ==
    [][/\ pcA' = "read_err" =>
              /\ ~stdin_done' /\ io_failed'
              /\ peer_written' = peer_written /\ zero_writes' = zero_writes
       /\ (pcA = "read_err" /\ pcA' # pcA) =>
              /\ stdin_done' /\ pcA' = "returned" /\ resA' = Ok
              /\ peer_written' = peer_written /\ zero_writes' = zero_writes
              /\ exit_code' = exit_code /\ exited_by' = exited_by
              /\ pipe_done' = pipe_done
              /\ result' = result /\ resB' = resB
       /\ StdinReadFailed =>
              /\ pcA = "returned" /\ resA = Ok /\ UNCHANGED << pcA, resA >>
              /\ peer_written' = peer_written /\ zero_writes' = zero_writes
              /\ IsPrefix(peer_written, stdin_read)
              /\ exited_by' # "A"
              /\ pcR' = "returned" => result' = resB'
      ]_vars

\* With send_zero and exit_on_stdin_eof both set, Pump A had passed bytes on
\* when its read failed; it sent no zero-length write, the process was not
\* exited, and run_relay has returned Ok(()).
C31_Witness ==
    /\ cfg.send_zero /\ cfg.exit_on_stdin_eof
    /\ StdinReadFailed /\ pcA = "returned" /\ resA = Ok
    /\ Len(peer_written) >= 1 /\ zero_writes = 0
    /\ exit_code = None
    /\ pcR = "returned" /\ result = Ok /\ joined

====
